---- MODULE Spec2Model ----
(***************************************************************************)
(* A model of lazyclaude's discovery engine: the orchestrator              *)
(* ConfigDiscoveryService (services/discovery.py), the plugin registry     *)
(* PluginLoader (services/plugin_loader.py), the parsers and the filter    *)
(* service, over an abstract filesystem.                                   *)
(*                                                                         *)
(* Conventions.  A path is a sequence of component strings.  A name is a   *)
(* sequence of one-character strings, so that lower-casing, comparison,    *)
(* splitting and joining are computed.  An optional value is a sequence    *)
(* of length at most one: <<>> is Python's None, <<x>> is x.  A call that  *)
(* can raise returns a record [exc, items]: exc = "none" for a normal      *)
(* return, otherwise the name of the exception that escaped.  A local      *)
(* variable of the code that is read more than once is bound with          *)
(* With(value, LAMBDA name : body), the tests that precede its assignment  *)
(* in the code standing before the binding.                                *)
(***************************************************************************)
EXTENDS Integers, Sequences, FiniteSets, TLC

(***************************************************************************)
(* Characters and strings                                                  *)
(***************************************************************************)

\* Code points of the characters the model's names are written with.
Ord ==
  ("-" :> 45) @@ ("." :> 46) @@ ("/" :> 47) @@ ("0" :> 48) @@ ("1" :> 49) @@
  ("2" :> 50) @@ (":" :> 58) @@ ("@" :> 64) @@ ("A" :> 65) @@ ("B" :> 66) @@
  ("C" :> 67) @@ ("D" :> 68) @@ ("E" :> 69) @@ ("G" :> 71) @@ ("I" :> 73) @@
  ("K" :> 75) @@ ("L" :> 76) @@ ("N" :> 78) @@ ("S" :> 83) @@ ("T" :> 84) @@
  ("U" :> 85) @@ ("Z" :> 90) @@ ("\\" :> 92) @@ ("_" :> 95) @@ ("a" :> 97) @@
  ("b" :> 98) @@ ("c" :> 99) @@ ("d" :> 100) @@ ("e" :> 101) @@
  ("g" :> 103) @@ ("h" :> 104) @@ ("i" :> 105) @@ ("j" :> 106) @@
  ("k" :> 107) @@ ("l" :> 108) @@ ("m" :> 109) @@ ("n" :> 110) @@
  ("o" :> 111) @@ ("p" :> 112) @@ ("r" :> 114) @@ ("s" :> 115) @@
  ("t" :> 116) @@ ("u" :> 117) @@ ("x" :> 120) @@ ("y" :> 121) @@
  ("z" :> 122)

Chr(n) == CHOOSE c \in DOMAIN Ord : Ord[c] = n

\* str.lower() on one character: A..Z map to a..z, everything else is kept.
LowerChar(c) == IF Ord[c] >= 65 /\ Ord[c] <= 90 THEN Chr(Ord[c] + 32) ELSE c

\* str.lower()
Lower(s) == [i \in 1..Len(s) |-> LowerChar(s[i])]

\* Python's s < t on str: lexicographic by code point, a proper prefix is less.
RECURSIVE StrLess(_, _)
StrLess(s, t) ==
  IF t = <<>> THEN FALSE
  ELSE IF s = <<>> THEN TRUE
  ELSE IF Ord[Head(s)] # Ord[Head(t)] THEN Ord[Head(s)] < Ord[Head(t)]
  ELSE StrLess(Tail(s), Tail(t))

\* x in s on str: x is a contiguous substring of s.
IsSubstring(x, s) ==
  \E i \in 0..(Len(s) - Len(x)) : SubSeq(s, i + 1, i + Len(x)) = x

RECURSIVE Concat(_)
Concat(ss) == IF ss = <<>> THEN <<>> ELSE Head(ss) \o Concat(Tail(ss))

\* The characters of the path components and tokens the model uses.
Chars ==
  [c \in {"CLAUDE.md", "AGENTS.md", "CLAUDE.local.md", "sub", "rules",
          ".claude", "h", "p", "style.md", "deploy.md", "Build.md", "nest",
          "helper.md", "SKILL.md", "Zeta", "deep", "x", "plug", "1.0.0",
          "2.0.0", "10.0.0", "latest", "beta", "commands", "agents",
          "skills", ".lsp.json", "plugins", ".claude.json"} |->
     CASE c = "CLAUDE.md" -> <<"C","L","A","U","D","E",".","m","d">>
       [] c = "AGENTS.md" -> <<"A","G","E","N","T","S",".","m","d">>
       [] c = "CLAUDE.local.md" ->
            <<"C","L","A","U","D","E",".","l","o","c","a","l",".","m","d">>
       [] c = "sub" -> <<"s","u","b">>
       [] c = "rules" -> <<"r","u","l","e","s">>
       [] c = ".claude" -> <<".","c","l","a","u","d","e">>
       [] c = "h" -> <<"h">>
       [] c = "p" -> <<"p">>
       [] c = "style.md" -> <<"s","t","y","l","e",".","m","d">>
       [] c = "deploy.md" -> <<"d","e","p","l","o","y",".","m","d">>
       [] c = "Build.md" -> <<"B","u","i","l","d",".","m","d">>
       [] c = "nest" -> <<"n","e","s","t">>
       [] c = "helper.md" -> <<"h","e","l","p","e","r",".","m","d">>
       [] c = "SKILL.md" -> <<"S","K","I","L","L",".","m","d">>
       [] c = "Zeta" -> <<"Z","e","t","a">>
       [] c = "deep" -> <<"d","e","e","p">>
       [] c = "x" -> <<"x">>
       [] c = "plug" -> <<"p","l","u","g">>
       [] c = "1.0.0" -> <<"1",".","0",".","0">>
       [] c = "2.0.0" -> <<"2",".","0",".","0">>
       [] c = "10.0.0" -> <<"1","0",".","0",".","0">>
       [] c = "latest" -> <<"l","a","t","e","s","t">>
       [] c = "beta" -> <<"b","e","t","a">>
       [] c = "commands" -> <<"c","o","m","m","a","n","d","s">>
       [] c = "agents" -> <<"a","g","e","n","t","s">>
       [] c = "skills" -> <<"s","k","i","l","l","s">>
       [] c = ".lsp.json" -> <<".","l","s","p",".","j","s","o","n">>
       [] c = "plugins" -> <<"p","l","u","g","i","n","s">>
       [] c = ".claude.json" ->
            <<".","c","l","a","u","d","e",".","j","s","o","n">>]

(***************************************************************************)
(* Optional values, results of calls that can raise                        *)
(***************************************************************************)

None == <<>>
Some(x) == <<x>>

\* A local variable: value is computed once, Body reads it by name.
With(value, Body(_)) == Body(value)

Ok(items) == [exc |-> "none", items |-> items]
Raise(e) == [exc |-> e, items |-> <<>>]

(***************************************************************************)
(* Paths and the filesystem                                                *)
(*                                                                         *)
(* A filesystem state is a record                                          *)
(*   files      : the paths that are regular files                         *)
(*   dirs       : the paths that are directories (every ancestor of a      *)
(*                file or link is a directory as well)                     *)
(*   links      : symbolic links to files, a set of <<link, target>>       *)
(*   unreadable : the files whose read_text raises OSError                 *)
(*   json       : the content of each JSON file, a record                  *)
(*                [st |-> "missing" | "unreadable" | "malformed" | "ok",  *)
(*                 data |-> value]                                         *)
(*   rev        : the order in which the OS lists directory entries        *)
(* Markdown content (front matter) is a fixed table of the path.           *)
(***************************************************************************)

\* Path.home(), ~/.claude, the project root and <project_root>/.claude
HomeDir == <<"h">>
user_config_path == <<"h", ".claude">>
project_root == <<"p">>
project_config_path == <<"p", ".claude">>

\* pathlib: p / name, p.parent, p.name
Join(p, name) == Append(p, name)
Parent(p) == SubSeq(p, 1, Len(p) - 1)
Name(p) == p[Len(p)]

IsPrefix(d, p) == Len(d) <= Len(p) /\ SubSeq(p, 1, Len(d)) = d
IsUnder(d, p) == Len(d) < Len(p) /\ IsPrefix(d, p)

\* str(path): "/" before every component
RECURSIVE PathStr(_)
PathStr(p) == IF p = <<>> THEN <<>> ELSE <<"/">> \o Chars[Head(p)] \o PathStr(Tail(p))

\* str(path.relative_to(base)) for a path under base: components joined by "/"
RelStr(p, base) == Tail(PathStr(SubSeq(p, Len(base) + 1, Len(p))))

LinkSources(fs) == {l[1] : l \in fs.links}

\* Path.resolve(): a link resolves to its target, any other path to itself
Resolve(fs, p) ==
  IF \E l \in fs.links : l[1] = p
  THEN (CHOOSE l \in fs.links : l[1] = p)[2]
  ELSE p

\* Path.is_file(): follows links; a JSON file is present unless "missing"
IsFile(fs, p) ==
  \/ Resolve(fs, p) \in fs.files
  \/ (p \in DOMAIN fs.json /\ fs.json[p].st # "missing")

\* Path.is_dir()
IsDir(fs, p) ==
  \/ p \in fs.dirs
  \/ \E f \in fs.files \cup LinkSources(fs) : IsUnder(p, f)
  \/ \E d \in fs.dirs : IsUnder(p, d)
  \/ \E j \in DOMAIN fs.json : fs.json[j].st # "missing" /\ IsUnder(p, j)

\* The entries (files, links, directories) that exist in the filesystem.
Entries(fs) ==
  fs.files \cup LinkSources(fs) \cup fs.dirs
    \cup {j \in DOMAIN fs.json : fs.json[j].st # "missing"}

(***************************************************************************)
(* Customization records (models/customization.py)                         *)
(***************************************************************************)

\* CustomizationType, in declaration order (the sort's primary key).
CustomizationType ==
  <<"SLASH_COMMAND", "SUBAGENT", "SKILL", "MEMORY_FILE", "MCP", "HOOK",
    "LSP_SERVER">>

\* ConfigLevel
ConfigLevel == {"USER", "PROJECT", "PROJECT_LOCAL", "PLUGIN"}

\* Customization(name, type, level, path, description, content, error,
\* plugin_info): description and plugin_info are optional values, content
\* and error are abstracted to present / absent.
Customization(name, type, level, path, description, content, error) ==
  [name |-> name, type |-> type, level |-> level, path |-> path,
   description |-> description, content |-> content, error |-> error,
   plugin_info |-> None]

(***************************************************************************)
(* Sorting (ConfigDiscoveryService._sort_customizations)                   *)
(***************************************************************************)

\* type_order = {t: i for i, t in enumerate(CustomizationType)}
type_order(t) == (CHOOSE i \in 1..Len(CustomizationType) : CustomizationType[i] = t) - 1

\* The key with the name as written, not lower-cased.
KeyLess_case_sensitive(c, d) ==
  \/ type_order(c.type) < type_order(d.type)
  \/ /\ type_order(c.type) = type_order(d.type)
     /\ StrLess(c.name, d.name)

\* key(c) < key(d) for key = lambda c: (type_order[c.type], c.name.lower())
KeyLess(c, d) ==
  \/ type_order(c.type) < type_order(d.type)
  \/ /\ type_order(c.type) = type_order(d.type)
     /\ StrLess(Lower(c.name), Lower(d.name))

\* sorted() is stable: x goes after every element whose key is not greater.
RECURSIVE InsertSorted(_, _)
InsertSorted(x, s) ==
  IF s = <<>> THEN <<x>>
  ELSE IF KeyLess(x, Head(s)) THEN <<x>> \o s
  ELSE <<Head(s)>> \o InsertSorted(x, Tail(s))

RECURSIVE SortFrom(_, _)
SortFrom(done, rest) ==
  IF rest = <<>> THEN done
  ELSE SortFrom(InsertSorted(Head(rest), done), Tail(rest))

_sort_customizations(customizations) == SortFrom(<<>>, customizations)

(***************************************************************************)
(* Directory listing                                                       *)
(***************************************************************************)

PathLess(p, q) == StrLess(PathStr(p), PathStr(q))

\* The paths of S as the OS lists them: the listing order is the
\* filesystem's own, modelled as ascending or (fs.rev) descending.
RECURSIVE Listing(_, _)
Listing(S, rev) ==
  IF S = {} THEN <<>>
  ELSE LET first == CHOOSE p \in S : \A q \in S \ {p} :
                      IF rev THEN PathLess(q, p) ELSE PathLess(p, q)
       IN <<first>> \o Listing(S \ {first}, rev)

EndsWith(s, suffix) ==
  Len(s) >= Len(suffix) /\ SubSeq(s, Len(s) - Len(suffix) + 1, Len(s)) = suffix

DotMd == <<".", "m", "d">>

\* dir.rglob("*.md")
RglobMd(fs, dir) ==
  Listing({e \in Entries(fs) : IsUnder(dir, e) /\ EndsWith(Chars[Name(e)], DotMd)},
          fs.rev)

\* dir.glob("*.md")
GlobMd(fs, dir) ==
  Listing({e \in Entries(fs) : Parent(e) = dir /\ EndsWith(Chars[Name(e)], DotMd)},
          fs.rev)

\* dir.rglob(name)
RglobName(fs, dir, name) ==
  Listing({e \in Entries(fs) : IsUnder(dir, e) /\ Name(e) = name}, fs.rev)

\* [d for d in dir.iterdir() if d.is_dir()]
Subdirs(fs, dir) ==
  Listing({d \in {SubSeq(e, 1, Len(dir) + 1) : e \in {x \in Entries(fs) : IsUnder(dir, x)}} :
             IsDir(fs, d)},
          fs.rev)

\* path.read_text() succeeds
Readable(fs, p) == IsFile(fs, p) /\ Resolve(fs, p) \notin fs.unreadable

(***************************************************************************)
(* Memory files and rules (services/discovery.py)                          *)
(***************************************************************************)

\* MemoryFileParser.parse(path, level): the whole file is the content; a
\* read failure gives a record with error set and no content.
MemoryFileParse(fs, path, level) ==
  Customization(PathStr(path), "MEMORY_FILE", level, path, None,
                Readable(fs, path), ~Readable(fs, path))

\* One candidate of _discover_memory_files / _discover_rules:
\*   isfile  the loop tests candidate.is_file()
\*   check   the loop tests resolved not in seen_paths
\*   base    <<b>> when the record is renamed to its path relative to b
Candidate(path, level, isfile, check, base) ==
  [path |-> path, level |-> level, isfile |-> isfile, check |-> check,
   base |-> base]

\* The loop body without the test of seen_paths.
TakeCandidate_unchecked(fs, st, c) ==
  LET resolved == Resolve(fs, c.path)
      parsed == MemoryFileParse(fs, c.path, c.level)
      named == IF c.base = None THEN parsed
               ELSE [parsed EXCEPT !.name = RelStr(c.path, c.base[1])]
  IN IF c.isfile => IsFile(fs, c.path)
     THEN [seen |-> st.seen \cup {resolved}, out |-> Append(st.out, named)]
     ELSE st

\* The loop body without the rename to the relative path.
TakeCandidate_parser_name(fs, st, c) ==
  LET resolved == Resolve(fs, c.path)
      parsed == MemoryFileParse(fs, c.path, c.level)
  IN IF (c.isfile => IsFile(fs, c.path)) /\ (c.check => resolved \notin st.seen)
     THEN [seen |-> st.seen \cup {resolved}, out |-> Append(st.out, parsed)]
     ELSE st

\* The body of the loops: resolve, test, add to seen_paths, parse, rename.
TakeCandidate(fs, st, c) ==
  LET resolved == Resolve(fs, c.path)
      parsed == MemoryFileParse(fs, c.path, c.level)
      named == IF c.base = None THEN parsed
               ELSE [parsed EXCEPT !.name = RelStr(c.path, c.base[1])]
  IN IF (c.isfile => IsFile(fs, c.path)) /\ (c.check => resolved \notin st.seen)
     THEN [seen |-> st.seen \cup {resolved}, out |-> Append(st.out, named)]
     ELSE st

RECURSIVE TakeCandidates(_, _, _)
TakeCandidates(fs, st, cs) ==
  IF cs = <<>> THEN st
  ELSE TakeCandidates(fs, TakeCandidate(fs, st, Head(cs)), Tail(cs))

\* The candidates with <project_root>/CLAUDE.md and AGENTS.md ahead of the
\* ones under <project_root>/.claude.
MemoryCandidates_root_first(fs) ==
  << Candidate(Join(user_config_path, "CLAUDE.md"), "USER", TRUE, FALSE, None),
     Candidate(Join(user_config_path, "AGENTS.md"), "USER", TRUE, FALSE, None),
     Candidate(Join(user_config_path, "CLAUDE.local.md"), "USER", TRUE, FALSE, None),
     Candidate(Join(project_root, "CLAUDE.md"), "PROJECT", TRUE, TRUE, None),
     Candidate(Join(project_root, "AGENTS.md"), "PROJECT", TRUE, TRUE, None),
     Candidate(Join(project_config_path, "CLAUDE.md"), "PROJECT", TRUE, TRUE, None),
     Candidate(Join(project_config_path, "AGENTS.md"), "PROJECT", TRUE, TRUE, None) >>
  \o [i \in 1..Len(RglobName(fs, project_root, "CLAUDE.md")) |->
        Candidate(RglobName(fs, project_root, "CLAUDE.md")[i], "PROJECT",
                  FALSE, TRUE, Some(project_root))]
  \o << Candidate(Join(project_root, "CLAUDE.local.md"), "PROJECT_LOCAL",
                  TRUE, TRUE, None),
        Candidate(Join(project_config_path, "CLAUDE.local.md"), "PROJECT_LOCAL",
                  TRUE, TRUE, None) >>

\* The candidates in the order the four loops of _discover_memory_files
\* visit them.  The user-level loops add to seen_paths without testing it.
MemoryCandidates(fs) ==
  << Candidate(Join(user_config_path, "CLAUDE.md"), "USER", TRUE, FALSE, None),
     Candidate(Join(user_config_path, "AGENTS.md"), "USER", TRUE, FALSE, None),
     Candidate(Join(user_config_path, "CLAUDE.local.md"), "USER", TRUE, FALSE, None),
     Candidate(Join(project_config_path, "CLAUDE.md"), "PROJECT", TRUE, TRUE, None),
     Candidate(Join(project_config_path, "AGENTS.md"), "PROJECT", TRUE, TRUE, None),
     Candidate(Join(project_root, "CLAUDE.md"), "PROJECT", TRUE, TRUE, None),
     Candidate(Join(project_root, "AGENTS.md"), "PROJECT", TRUE, TRUE, None) >>
  \o [i \in 1..Len(RglobName(fs, project_root, "CLAUDE.md")) |->
        Candidate(RglobName(fs, project_root, "CLAUDE.md")[i], "PROJECT",
                  FALSE, TRUE, Some(project_root))]
  \o << Candidate(Join(project_root, "CLAUDE.local.md"), "PROJECT_LOCAL",
                  TRUE, TRUE, None),
        Candidate(Join(project_config_path, "CLAUDE.local.md"), "PROJECT_LOCAL",
                  TRUE, TRUE, None) >>

_discover_memory_files(fs) ==
  TakeCandidates(fs, [seen |-> {}, out |-> <<>>], MemoryCandidates(fs)).out

\* The *.md files under rules_dir, when it is a directory.
RuleCandidates(fs, rules_dir, level) ==
  IF IsDir(fs, rules_dir)
  THEN [i \in 1..Len(RglobMd(fs, rules_dir)) |->
          Candidate(RglobMd(fs, rules_dir)[i], level, TRUE, TRUE, Some(rules_dir))]
  ELSE <<>>

\* One seen_paths set serves the user and then the project rules.
_discover_rules(fs) ==
  TakeCandidates(fs, [seen |-> {}, out |-> <<>>],
                 RuleCandidates(fs, Join(user_config_path, "rules"), "USER")
                 \o RuleCandidates(fs, Join(project_config_path, "rules"), "PROJECT")).out

(***************************************************************************)
(* JSON                                                                    *)
(*                                                                         *)
(* A JSON value is a record tagged by t.  An object keeps its members in   *)
(* file order, as Python's dict does.                                      *)
(***************************************************************************)

JDict(items) == [t |-> "dict", items |-> items]
JList(elems) == [t |-> "list", elems |-> elems]
JStr(s) == [t |-> "str", s |-> s]
JBool(b) == [t |-> "bool", b |-> b]
JNum(n) == [t |-> "num", n |-> n]

IsDictJ(j) == j.t = "dict"

\* bool(j)
Truthy(j) ==
  CASE j.t = "dict" -> j.items # <<>>
    [] j.t = "list" -> j.elems # <<>>
    [] j.t = "str" -> j.s # <<>>
    [] j.t = "bool" -> j.b
    [] j.t = "num" -> j.n # 0

\* key in d, d[key], d.get(key, default) for a dict d
HasKey(d, key) == \E i \in 1..Len(d.items) : d.items[i][1] = key
Lookup(d, key) == d.items[CHOOSE i \in 1..Len(d.items) : d.items[i][1] = key][2]
Get(d, key, default) == IF HasKey(d, key) THEN Lookup(d, key) ELSE default

\* json.loads(path.read_text()): the value, or the exception raised
ReadJson(fs, p) ==
  IF p \notin DOMAIN fs.json \/ fs.json[p].st \in {"missing", "unreadable"}
  THEN [exc |-> "OSError"]
  ELSE IF fs.json[p].st = "malformed" THEN [exc |-> "JSONDecodeError"]
  ELSE [exc |-> "none", data |-> fs.json[p].data]

(***************************************************************************)
(* Front matter                                                            *)
(***************************************************************************)

\* parse_frontmatter(path.read_text())[0], restricted to the keys the
\* parsers read: the Markdown files' content is fixed by their path.
FrontMatter(path) ==
  CASE path = <<"h", ".claude", "commands", "deploy.md">> ->
         [name |-> None, description |-> Some("Deploy the app")]
    [] path = <<"h", ".claude", "skills", "x", "SKILL.md">> ->
         [name |-> Some(Chars["Zeta"]), description |-> Some("A skill")]
    [] OTHER -> [name |-> None, description |-> None]

(***************************************************************************)
(* Parsers of Markdown files and the filesystem scanner                    *)
(***************************************************************************)

\* SkillParser.parse naming every skill after its directory.
SkillParse_directory_name(fs, path, level) ==
  LET skill_dir == Parent(path)
      fm == FrontMatter(path)
  IN IF ~Readable(fs, path)
     THEN Customization(Chars[Name(skill_dir)], "SKILL", level, path, None, FALSE, TRUE)
     ELSE Customization(Chars[Name(skill_dir)], "SKILL", level, path,
                        fm.description, TRUE, FALSE)

\* SkillParser.parse (parsers/skill.py): a read failure gives an error
\* record named after the skill directory; otherwise the name is the front
\* matter's name, or the directory's name.
SkillParse(fs, path, level) ==
  LET skill_dir == Parent(path)
      fm == FrontMatter(path)
  IN IF ~Readable(fs, path)
     THEN Customization(Chars[Name(skill_dir)], "SKILL", level, path, None, FALSE, TRUE)
     ELSE Customization(IF fm.name # None THEN fm.name[1] ELSE Chars[Name(skill_dir)],
                        "SKILL", level, path, fm.description, TRUE, FALSE)

\* SkillParser.can_parse: SKILL.md directly inside a subdirectory of skills_dir
SkillCanParse(path, skills_dir) ==
  Name(path) = "SKILL.md" /\ Len(path) >= 2 /\ Parent(Parent(path)) = skills_dir

\* Path.stem of a *.md name
Stem(chars) == SubSeq(chars, 1, Len(chars) - Len(DotMd))

\* The components of a relative path joined by ":".
RECURSIVE ColonJoin(_)
ColonJoin(p) ==
  IF Len(p) = 1 THEN Chars[p[1]] ELSE Chars[Head(p)] \o <<":">> \o ColonJoin(Tail(p))

\* SlashCommandParser.parse: the name is the file's stem, the nested path
\* under the commands directory preserved.
SlashCommandParse(fs, path, level, commands_dir) ==
  IF ~Readable(fs, path)
  THEN Customization(Stem(ColonJoin(SubSeq(path, Len(commands_dir) + 1, Len(path)))),
                     "SLASH_COMMAND", level, path, None, FALSE, TRUE)
  ELSE Customization(Stem(ColonJoin(SubSeq(path, Len(commands_dir) + 1, Len(path)))),
                     "SLASH_COMMAND", level, path, FrontMatter(path).description,
                     TRUE, FALSE)

\* SubagentParser.parse: the name is the file's stem.
SubagentParse(fs, path, level) ==
  IF ~Readable(fs, path)
  THEN Customization(Stem(Chars[Name(path)]), "SUBAGENT", level, path, None, FALSE, TRUE)
  ELSE Customization(Stem(Chars[Name(path)]), "SUBAGENT", level, path,
                     FrontMatter(path).description, TRUE, FALSE)

\* SCAN_CONFIGS, in the dict's order: (key, subdir, strategy)
SCAN_CONFIGS ==
  << [key |-> "slash_commands", subdir |-> "commands", strategy |-> "RGLOB"],
     [key |-> "subagents", subdir |-> "agents", strategy |-> "GLOB"],
     [key |-> "skills", subdir |-> "skills", strategy |-> "SUBDIR"] >>

\* The files a scan rule selects under scan_dir.
ScanFiles(fs, scan_dir, strategy) ==
  CASE strategy = "RGLOB" -> SelectSeq(RglobMd(fs, scan_dir), LAMBDA f : IsFile(fs, f))
    [] strategy = "GLOB" -> SelectSeq(GlobMd(fs, scan_dir), LAMBDA f : IsFile(fs, f))
    [] strategy = "SUBDIR" ->
         SelectSeq([i \in 1..Len(Subdirs(fs, scan_dir)) |->
                      Join(Subdirs(fs, scan_dir)[i], "SKILL.md")],
                   LAMBDA f : IsFile(fs, f))

WithPlugin(c, plugin_info) == [c EXCEPT !.plugin_info = plugin_info]

\* FilesystemScanner.scan_directory(root, config, level, plugin_info): empty
\* when root/subdir is no directory, else one parsed record per file.
scan_directory(fs, root, config, level, plugin_info) ==
  LET scan_dir == Join(root, config.subdir)
      found == ScanFiles(fs, scan_dir, config.strategy)
  IN IF ~IsDir(fs, scan_dir) THEN <<>>
     ELSE [i \in 1..Len(found) |->
             WithPlugin(
               CASE config.key = "slash_commands" ->
                      SlashCommandParse(fs, found[i], level, scan_dir)
                 [] config.key = "subagents" -> SubagentParse(fs, found[i], level)
                 [] config.key = "skills" -> SkillParse(fs, found[i], level),
               plugin_info)]

\* for config in SCAN_CONFIGS.values(): extend(scan_directory(root, ...))
StructuredScans(fs, root, level, plugin_info) ==
  Concat([i \in 1..Len(SCAN_CONFIGS) |->
            scan_directory(fs, root, SCAN_CONFIGS[i], level, plugin_info)])

\* The first loop with a record dropped when an earlier one has its kind
\* and name.
UserProjectScans_dedup(fs) ==
  LET all == Concat([i \in 1..Len(SCAN_CONFIGS) |->
                  scan_directory(fs, user_config_path, SCAN_CONFIGS[i], "USER", None)
                  \o scan_directory(fs, project_config_path, SCAN_CONFIGS[i],
                                    "PROJECT", None)])
      keep == {i \in 1..Len(all) :
                 ~\E j \in 1..(i - 1) : all[j].type = all[i].type
                                       /\ all[j].name = all[i].name}
  IN [k \in 1..Cardinality(keep) |->
        all[CHOOSE i \in keep : Cardinality({j \in keep : j < i}) = k - 1]]

\* The first loop of discover_all: each rule at User scope, then Project.
UserProjectScans(fs) ==
  Concat([i \in 1..Len(SCAN_CONFIGS) |->
            scan_directory(fs, user_config_path, SCAN_CONFIGS[i], "USER", None)
            \o scan_directory(fs, project_config_path, SCAN_CONFIGS[i], "PROJECT", None)])

(***************************************************************************)
(* Parsers of JSON manifests                                               *)
(***************************************************************************)

\* MCPParser.parse_server_config(name, config, path, level)
MCPServerConfig(server_name, path, level) ==
  Customization(server_name, "MCP", level, path, None, TRUE, FALSE)

\* MCPParser.parse(path, level): one record per member of "mcpServers"; a
\* manifest that cannot be read or decoded, or has another shape, gives none.
MCPParse(fs, path, level) ==
  LET r == ReadJson(fs, path)
      servers == Get(r.data, "mcpServers", JDict(<<>>))
  IN IF r.exc # "none" \/ ~IsDictJ(r.data) THEN <<>>
     ELSE IF ~IsDictJ(servers) THEN <<>>
     ELSE [i \in 1..Len(servers.items) |->
             MCPServerConfig(servers.items[i][1], path, level)]

\* The hooks of one matcher group of one event: one record per hook.
HookGroup(event, group, path, level) ==
  IF IsDictJ(group) /\ HasKey(group, "hooks") /\ Lookup(group, "hooks").t = "list"
  THEN [k \in 1..Len(Lookup(group, "hooks").elems) |->
          Customization(event, "HOOK", level, path, None, TRUE, FALSE)]
  ELSE <<>>

\* HookParser.parse(path, level): one record per (event, matcher, hook index)
\* of "hooks"; a file that cannot be read or decoded gives none.
HookParse(fs, path, level) ==
  LET r == ReadJson(fs, path)
      hooks == Get(r.data, "hooks", JDict(<<>>))
      Groups(ev) == IF ev[2].t = "list"
                    THEN Concat([g \in 1..Len(ev[2].elems) |->
                                   HookGroup(ev[1], ev[2].elems[g], path, level)])
                    ELSE <<>>
  IN IF r.exc # "none" \/ ~IsDictJ(r.data) THEN <<>>
     ELSE IF ~IsDictJ(hooks) THEN <<>>
     ELSE Concat([e \in 1..Len(hooks.items) |-> Groups(hooks.items[e])])

\* LSPServerParser.parse_server_config (parsers/lsp_server.py)
LSPServerConfig(language_name, source_path, level) ==
  Customization(language_name, "LSP_SERVER", level, source_path,
                Some("command"), TRUE, FALSE)

\* The members of a dict whose value is a dict, in order.
DictMembers(d) == SelectSeq(d.items, LAMBDA kv : IsDictJ(kv[2]))

\* LSPServerParser.parse (parsers/lsp_server.py): a read or decode failure
\* gives one error record named after the file; a value that is empty or no
\* dict gives none; otherwise one record per member that is a dict.
LSPParse(fs, path, level) ==
  LET r == ReadJson(fs, path)
  IN IF r.exc # "none"
     THEN << Customization(Chars[Name(path)], "LSP_SERVER", level, path,
                           None, FALSE, TRUE) >>
     ELSE IF ~Truthy(r.data) \/ ~IsDictJ(r.data) THEN <<>>
     ELSE [i \in 1..Len(DictMembers(r.data)) |->
             LSPServerConfig(DictMembers(r.data)[i][1], path, level)]

(***************************************************************************)
(* MCP servers and hooks (services/discovery.py)                           *)
(***************************************************************************)

\* Path.home() / ".claude.json"
claude_json == Join(HomeDir, ".claude.json")

\* str.replace(a, b) for single characters
Replace(s, a, b) == [i \in 1..Len(s) |-> IF s[i] = a THEN b ELSE s[i]]

\* project_path = str(self.project_root).replace("\\", "/")
project_path == Replace(PathStr(project_root), "\\", "/")

\* The keys tried without the back-slash form.
ProjectKeys_forward_only == << project_path >>

\* [project_path, project_path.replace("/", "\\")]
ProjectKeys == << project_path, Replace(project_path, "/", "\\") >>

\* key in projects, for a dict, a list or a str (a bool or a number supports
\* no membership test: LocalMcpsOf raises TypeError before this is used)
KeyIn(key, projects) ==
  CASE projects.t = "dict" -> HasKey(projects, key)
    [] projects.t = "list" ->
         \E i \in 1..Len(projects.elems) :
            projects.elems[i].t = "str" /\ projects.elems[i].s = key
    [] projects.t = "str" -> IsSubstring(key, projects.s)
    [] OTHER -> FALSE

\* The rest of the try block once data is loaded.
LocalMcpsOf(data) ==
  LET projects == Get(data, "projects", JDict(<<>>))
      hits == SelectSeq(ProjectKeys, LAMBDA key : KeyIn(key, projects))
      entry == Lookup(projects, hits[1])
      mcp_servers == Get(entry, "mcpServers", JDict(<<>>))
  IN IF ~IsDictJ(data) THEN Raise("AttributeError")
     ELSE IF projects.t \in {"bool", "num"} THEN Raise("TypeError")
     ELSE IF hits = <<>> THEN Ok(<<>>)
     ELSE IF ~IsDictJ(projects) THEN Raise("TypeError")
     ELSE IF ~IsDictJ(entry) THEN Raise("AttributeError")
     ELSE IF ~Truthy(mcp_servers) THEN Ok(<<>>)
     ELSE IF ~IsDictJ(mcp_servers) THEN Raise("AttributeError")
     ELSE Ok([i \in 1..Len(mcp_servers.items) |->
                MCPServerConfig(mcp_servers.items[i][1], claude_json,
                                "PROJECT_LOCAL")])

\* _discover_local_mcps: OSError and JSONDecodeError are caught, nothing else.
_discover_local_mcps(fs) ==
  LET r == ReadJson(fs, claude_json)
  IN IF ~IsFile(fs, claude_json) THEN Ok(<<>>)
     ELSE IF r.exc # "none" THEN Ok(<<>>)
     ELSE LocalMcpsOf(r.data)

\* _discover_mcps: user, local, project
_discover_mcps(fs) ==
  LET user == IF IsFile(fs, claude_json) THEN MCPParse(fs, claude_json, "USER")
              ELSE <<>>
      local == _discover_local_mcps(fs)
      project_mcp_file == Join(project_root, ".mcp.json")
      project == IF IsFile(fs, project_mcp_file)
                 THEN MCPParse(fs, project_mcp_file, "PROJECT") ELSE <<>>
  IN IF local.exc # "none" THEN local
     ELSE Ok(user \o local.items \o project)

\* _discover_hooks: user settings, project settings, project-local settings
_discover_hooks(fs) ==
  LET From(path, level) == IF IsFile(fs, path) THEN HookParse(fs, path, level)
                           ELSE <<>>
  IN From(Join(user_config_path, "settings.json"), "USER")
     \o From(Join(project_config_path, "settings.json"), "PROJECT")
     \o From(Join(project_config_path, "settings.local.json"), "PROJECT_LOCAL")

(***************************************************************************)
(* Plugin registry (services/plugin_loader.py)                             *)
(*                                                                         *)
(* The registry is None or <<[installed, enabled]>>, both raw JSON values. *)
(***************************************************************************)

installed_plugins_json == <<"h", ".claude", "plugins", "installed_plugins.json">>
user_settings_json == Join(user_config_path, "settings.json")

\* _load_json_dict(path, key): {} when the file is missing, unreadable or not
\* JSON; data.get raises AttributeError when the document is no object.
_load_json_dict(fs, path, key) ==
  IF ~IsFile(fs, path) THEN [exc |-> "none", val |-> JDict(<<>>)]
  ELSE
  With(ReadJson(fs, path), LAMBDA r :
    IF r.exc # "none" THEN [exc |-> "none", val |-> JDict(<<>>)]
    ELSE IF ~IsDictJ(r.data) THEN [exc |-> "AttributeError", val |-> JDict(<<>>)]
    ELSE [exc |-> "none", val |-> Get(r.data, key, JDict(<<>>))])

\* load_registry without the test of self._registry: every call reads the
\* manifests.
load_registry_uncached(fs, reg) ==
  With(_load_json_dict(fs, installed_plugins_json, "plugins"), LAMBDA installed :
    IF installed.exc # "none" THEN [exc |-> installed.exc, reg |-> reg]
    ELSE
  With(_load_json_dict(fs, user_settings_json, "enabledPlugins"), LAMBDA enabled :
    IF enabled.exc # "none" THEN [exc |-> enabled.exc, reg |-> reg]
    ELSE [exc |-> "none",
          reg |-> Some([installed |-> installed.val, enabled |-> enabled.val])]))

\* load_registry: the cached registry when there is one, else both manifests
\* are read and the registry is set.  Returns [exc, reg].
load_registry(fs, reg) ==
  IF reg # None THEN [exc |-> "none", reg |-> reg]
  ELSE
  With(_load_json_dict(fs, installed_plugins_json, "plugins"), LAMBDA installed :
    IF installed.exc # "none" THEN [exc |-> installed.exc, reg |-> reg]
    ELSE
  With(_load_json_dict(fs, user_settings_json, "enabledPlugins"), LAMBDA enabled :
    IF enabled.exc # "none" THEN [exc |-> enabled.exc, reg |-> reg]
    ELSE [exc |-> "none",
          reg |-> Some([installed |-> installed.val, enabled |-> enabled.val])]))

\* str.split(sep): the pieces between the separators
RECURSIVE SplitFrom(_, _, _)
SplitFrom(s, sep, piece) ==
  IF s = <<>> THEN <<piece>>
  ELSE IF Head(s) = sep THEN <<piece>> \o SplitFrom(Tail(s), sep, <<>>)
  ELSE SplitFrom(Tail(s), sep, Append(piece, Head(s)))

Split(s, sep) == SplitFrom(s, sep, <<>>)

IsDigit(c) == Ord[c] >= 48 /\ Ord[c] <= 57

\* int(part) succeeds (the model's names hold no sign, space or underscore)
IsIntStr(part) == part # <<>> /\ \A i \in 1..Len(part) : IsDigit(part[i])

RECURSIVE ToInt(_)
ToInt(part) ==
  IF part = <<>> THEN 0
  ELSE 10 * ToInt(SubSeq(part, 1, Len(part) - 1)) + (Ord[part[Len(part)]] - 48)

\* _parse_version: a tuple of ints when every part is an int, else
\* (version_str,)
_parse_version(version_str) ==
  With(Split(version_str, "."), LAMBDA parts :
    IF \A i \in 1..Len(parts) : IsIntStr(parts[i])
    THEN [kind |-> "int", v |-> [i \in 1..Len(parts) |-> ToInt(parts[i])]]
    ELSE [kind |-> "str", v |-> version_str])

\* a < b on tuples of ints
RECURSIVE IntTupleLess(_, _)
IntTupleLess(a, b) ==
  IF b = <<>> THEN FALSE
  ELSE IF a = <<>> THEN TRUE
  ELSE IF Head(a) # Head(b) THEN Head(a) < Head(b)
  ELSE IntTupleLess(Tail(a), Tail(b))

\* a > b on two keys: "TypeError" when an int meets a str
KeyGreater(a, b) ==
  IF a.kind # b.kind THEN "TypeError"
  ELSE IF a.kind = "int" THEN (IF IntTupleLess(b.v, a.v) THEN "yes" ELSE "no")
  ELSE (IF StrLess(b.v, a.v) THEN "yes" ELSE "no")

\* max(subdirs, key=...): the first greatest, or the exception of a comparison
RECURSIVE MaxFrom(_, _)
MaxFrom(best, rest) ==
  IF rest = <<>> THEN [exc |-> "none", path |-> best]
  ELSE
  With(KeyGreater(_parse_version(Chars[Name(Head(rest))]),
                  _parse_version(Chars[Name(best)])), LAMBDA gt :
    IF gt = "TypeError" THEN [exc |-> "TypeError", path |-> best]
    ELSE MaxFrom(IF gt = "yes" THEN Head(rest) ELSE best, Tail(rest)))

\* _find_latest_version_dir(parent_dir): only OSError is caught
_find_latest_version_dir(fs, parent_dir) ==
  With(Subdirs(fs, parent_dir), LAMBDA subdirs :
    IF subdirs # <<>> THEN MaxFrom(Head(subdirs), Tail(subdirs))
    ELSE [exc |-> "none", path |-> parent_dir])

\* plugin_id.split("@")[0] if "@" in plugin_id else plugin_id
ShortName(plugin_id) == Split(plugin_id, "@")[1]

Unknown == <<"u", "n", "k", "n", "o", "w", "n">>

\* _create_plugin_info(plugin_id, plugin_data) with the registry reg loaded.
\* Returns [exc, info]: info is None or <<PluginInfo>>.
_create_plugin_info(fs, reg, plugin_id, plugin_data) ==
  IF ~IsDictJ(plugin_data) THEN [exc |-> "AttributeError", info |-> None]
  ELSE
  With(Get(plugin_data, "installPath", JStr(<<>>)), LAMBDA install_path_str :
    IF ~Truthy(install_path_str) THEN [exc |-> "none", info |-> None]
    ELSE IF install_path_str.t # "str" THEN [exc |-> "TypeError", info |-> None]
    ELSE
  With(~IsDir(fs, install_path_str.s) /\ IsDir(fs, Parent(install_path_str.s)),
       LAMBDA fallback :
  With(IF fallback THEN _find_latest_version_dir(fs, Parent(install_path_str.s))
       ELSE [exc |-> "none", path |-> install_path_str.s], LAMBDA install_path :
    IF install_path.exc # "none" THEN [exc |-> install_path.exc, info |-> None]
    ELSE IF ~IsDictJ(reg[1].enabled) THEN [exc |-> "AttributeError", info |-> None]
    ELSE [exc |-> "none",
          info |-> Some([plugin_id |-> plugin_id,
                         short_name |-> ShortName(plugin_id),
                         version |-> IF fallback THEN Chars[Name(install_path.path)]
                                     ELSE Get(plugin_data, "version", JStr(Unknown)).s,
                         install_path |-> install_path.path,
                         is_local |-> Truthy(Get(plugin_data, "isLocal", JBool(FALSE))),
                         is_enabled |-> Truthy(Get(reg[1].enabled, plugin_id,
                                                   JBool(TRUE)))])])))

\* The loop of get_all_plugins / get_enabled_plugins over installed.items():
\* enabled_only skips the ids whose enabled flag is false.
RECURSIVE PluginsFrom(_, _, _, _, _)
PluginsFrom(fs, reg, items, enabled_only, acc) ==
  IF items = <<>> THEN [exc |-> "none", plugins |-> acc]
  ELSE IF enabled_only /\ ~IsDictJ(reg[1].enabled)
  THEN [exc |-> "AttributeError", plugins |-> acc]
  ELSE IF enabled_only /\ ~Truthy(Get(reg[1].enabled, Head(items)[1], JBool(TRUE)))
  THEN PluginsFrom(fs, reg, Tail(items), enabled_only, acc)
  ELSE
  With(_create_plugin_info(fs, reg, Head(items)[1], Head(items)[2]), LAMBDA r :
    IF r.exc # "none" THEN [exc |-> r.exc, plugins |-> acc]
    ELSE PluginsFrom(fs, reg, Tail(items), enabled_only,
                     IF r.info # None /\ IsDir(fs, r.info[1].install_path)
                     THEN Append(acc, r.info[1]) ELSE acc))

\* get_all_plugins / get_enabled_plugins from registry reg (None: not yet
\* loaded).  Returns [exc, plugins, reg]: reg is the registry afterwards.
PluginsOf(fs, reg, enabled_only) ==
  With(load_registry(fs, reg), LAMBDA loaded :
    IF loaded.exc # "none"
    THEN [exc |-> loaded.exc, plugins |-> <<>>, reg |-> loaded.reg]
    ELSE IF ~IsDictJ(loaded.reg[1].installed)
    THEN [exc |-> "AttributeError", plugins |-> <<>>, reg |-> loaded.reg]
    ELSE
  With(PluginsFrom(fs, loaded.reg, loaded.reg[1].installed.items, enabled_only,
                   <<>>), LAMBDA r :
    [exc |-> r.exc, plugins |-> r.plugins, reg |-> loaded.reg]))

get_all_plugins(fs, reg) == PluginsOf(fs, reg, FALSE)

\* get_enabled_plugins without the test of the enabled flag
get_enabled_plugins_unflagged(fs, reg) == PluginsOf(fs, reg, FALSE)

get_enabled_plugins(fs, reg) == PluginsOf(fs, reg, TRUE)

known_marketplaces_json ==
  <<"h", ".claude", "plugins", "known_marketplaces.json">>

Directory == <<"d", "i", "r", "e", "c", "t", "o", "r", "y">>

\* _load_marketplace_info: data.get(marketplace_name), None when the file
\* is missing, unreadable or no JSON; data.get on a non-object is not caught.
_load_marketplace_info(fs, marketplace_name) ==
  IF ~IsFile(fs, known_marketplaces_json) THEN [exc |-> "none", val |-> None]
  ELSE
  With(ReadJson(fs, known_marketplaces_json), LAMBDA r :
    IF r.exc # "none" THEN [exc |-> "none", val |-> None]
    ELSE IF ~IsDictJ(r.data) THEN [exc |-> "AttributeError", val |-> None]
    ELSE IF HasKey(r.data, marketplace_name)
    THEN [exc |-> "none", val |-> Some(Lookup(r.data, marketplace_name))]
    ELSE [exc |-> "none", val |-> None])

\* The loop over the manifest's plugins from entry i on: the first entry
\* with the plugin's name whose resolved source is a directory.
RECURSIVE FindSource(_, _, _, _, _)
FindSource(fs, marketplace_root, plugin_name, plugins, i) ==
  IF i > Len(plugins) THEN [exc |-> "none", path |-> Some(marketplace_root)]
  ELSE IF ~IsDictJ(plugins[i]) THEN [exc |-> "AttributeError", path |-> None]
  ELSE
  With(Get(plugins[i], "source", JStr(<<>>)), LAMBDA source_relative :
    IF Get(plugins[i], "name", JStr(<<>>)) = JStr(plugin_name)
         /\ HasKey(plugins[i], "name") /\ Truthy(source_relative)
    THEN IF source_relative.t # "str" THEN [exc |-> "TypeError", path |-> None]
         ELSE IF IsDir(fs, Resolve(fs, marketplace_root \o source_relative.s))
         THEN [exc |-> "none",
               path |-> Some(Resolve(fs, marketplace_root \o source_relative.s))]
         ELSE FindSource(fs, marketplace_root, plugin_name, plugins, i + 1)
    ELSE FindSource(fs, marketplace_root, plugin_name, plugins, i + 1))

MarketplaceJson(marketplace_root) ==
  Join(Join(marketplace_root, ".claude-plugin"), "marketplace.json")

\* A variant that never reads the marketplace's manifest.
_find_plugin_source_in_marketplace_root_only(fs, marketplace_root, plugin_name) ==
  [exc |-> "none", path |-> Some(marketplace_root)]

\* _find_plugin_source_in_marketplace: OSError and JSONDecodeError are
\* caught, a manifest or an entry that is no object is not.
_find_plugin_source_in_marketplace(fs, marketplace_root, plugin_name) ==
  IF ~IsFile(fs, MarketplaceJson(marketplace_root))
  THEN [exc |-> "none", path |-> Some(marketplace_root)]
  ELSE
  With(ReadJson(fs, MarketplaceJson(marketplace_root)), LAMBDA r :
    IF r.exc # "none" THEN [exc |-> "none", path |-> Some(marketplace_root)]
    ELSE IF ~IsDictJ(r.data) THEN [exc |-> "AttributeError", path |-> None]
    ELSE
  With(Get(r.data, "plugins", JList(<<>>)), LAMBDA plugins :
    CASE plugins.t = "list" ->
           FindSource(fs, marketplace_root, plugin_name, plugins.elems, 1)
      [] plugins.t \in {"dict", "str"} ->
           IF Truthy(plugins) THEN [exc |-> "AttributeError", path |-> None]
           ELSE [exc |-> "none", path |-> Some(marketplace_root)]
      [] OTHER -> [exc |-> "TypeError", path |-> None]))

\* The last lines of get_plugin_source_path: installPath of the plugin in
\* the registry, or None.
InstalledPath(fs, reg, plugin_id) ==
  With(load_registry(fs, reg), LAMBDA r :
    IF r.exc # "none" THEN [exc |-> r.exc, reg |-> r.reg, path |-> None]
    ELSE IF ~IsDictJ(r.reg[1].installed)
    THEN [exc |-> "AttributeError", reg |-> r.reg, path |-> None]
    ELSE
  With(Get(r.reg[1].installed, plugin_id, JDict(<<>>)), LAMBDA plugin_data :
    IF ~IsDictJ(plugin_data)
    THEN [exc |-> "AttributeError", reg |-> r.reg, path |-> None]
    ELSE
  With(Get(plugin_data, "installPath", JStr(<<>>)), LAMBDA install_path_str :
    IF ~Truthy(install_path_str) THEN [exc |-> "none", reg |-> r.reg, path |-> None]
    ELSE IF install_path_str.t # "str"
    THEN [exc |-> "TypeError", reg |-> r.reg, path |-> None]
    ELSE [exc |-> "none", reg |-> r.reg, path |-> Some(install_path_str.s)])))

\* The marketplace named after the last "@" of the id, if any
MarketplaceName(plugin_id) ==
  With(Split(plugin_id, "@"), LAMBDA parts :
    IF Len(parts) > 1 THEN Some(parts[Len(parts)]) ELSE None)

\* get_plugin_source_path: the source inside a directory marketplace, else
\* the installPath of the registry
get_plugin_source_path(fs, reg, plugin_id) ==
  With(MarketplaceName(plugin_id), LAMBDA marketplace_name :
    IF marketplace_name = None \/ marketplace_name = Some(<<>>)
    THEN InstalledPath(fs, reg, plugin_id)
    ELSE
  With(_load_marketplace_info(fs, marketplace_name[1]), LAMBDA marketplace_info :
    IF marketplace_info.exc # "none"
    THEN [exc |-> marketplace_info.exc, reg |-> reg, path |-> None]
    ELSE IF marketplace_info.val = None \/ ~Truthy(marketplace_info.val[1])
    THEN InstalledPath(fs, reg, plugin_id)
    ELSE IF ~IsDictJ(marketplace_info.val[1])
    THEN [exc |-> "AttributeError", reg |-> reg, path |-> None]
    ELSE
  With(Get(marketplace_info.val[1], "source", JDict(<<>>)), LAMBDA source :
    IF ~IsDictJ(source) THEN [exc |-> "AttributeError", reg |-> reg, path |-> None]
    ELSE IF Get(source, "source", JStr(<<>>)) # JStr(Directory)
              \/ ~Truthy(Get(source, "path", JStr(<<>>)))
    THEN InstalledPath(fs, reg, plugin_id)
    ELSE IF Get(source, "path", JStr(<<>>)).t # "str"
    THEN [exc |-> "TypeError", reg |-> reg, path |-> None]
    ELSE
  With(_find_plugin_source_in_marketplace(fs, Get(source, "path", JStr(<<>>)).s,
                                          ShortName(plugin_id)),
       LAMBDA plugin_source :
         [exc |-> plugin_source.exc, reg |-> reg, path |-> plugin_source.path]))))

(***************************************************************************)
(* Plugin-sourced items (services/discovery.py)                            *)
(***************************************************************************)

\* The records of a plugin manifest left without plugin_info.
TagAll_untagged(items, plugin_info) == items

TagAll(items, plugin_info) ==
  [i \in 1..Len(items) |-> WithPlugin(items[i], Some(plugin_info))]

\* _discover_plugin_mcps
_discover_plugin_mcps(fs, install_path, plugin_info) ==
  IF ~IsFile(fs, Join(install_path, ".mcp.json")) THEN <<>>
  ELSE TagAll(MCPParse(fs, Join(install_path, ".mcp.json"), "PLUGIN"), plugin_info)

\* _discover_plugin_hooks
_discover_plugin_hooks(fs, install_path, plugin_info) ==
  IF ~IsFile(fs, Join(Join(install_path, "hooks"), "hooks.json")) THEN <<>>
  ELSE TagAll(HookParse(fs, Join(Join(install_path, "hooks"), "hooks.json"),
                        "PLUGIN"), plugin_info)

\* _discover_plugin_lsp_servers: .lsp.json through the parser, then the
\* lspServers field of .claude-plugin/plugin.json; OSError and
\* JSONDecodeError are caught, data.get on a non-object is not.
_discover_plugin_lsp_servers(fs, install_path, plugin_info) ==
  With(IF IsFile(fs, Join(install_path, ".lsp.json"))
       THEN TagAll(LSPParse(fs, Join(install_path, ".lsp.json"), "PLUGIN"),
                   plugin_info)
       ELSE <<>>, LAMBDA from_file :
  With(Join(Join(install_path, ".claude-plugin"), "plugin.json"),
       LAMBDA plugin_json :
  With(ReadJson(fs, plugin_json), LAMBDA r :
    IF ~IsFile(fs, plugin_json) \/ r.exc # "none" THEN Ok(from_file)
    ELSE IF ~IsDictJ(r.data) THEN Raise("AttributeError")
    ELSE
  With(Get(r.data, "lspServers", JDict(<<>>)), LAMBDA lsp_servers :
    IF Truthy(lsp_servers) /\ IsDictJ(lsp_servers)
    THEN
  With(DictMembers(lsp_servers), LAMBDA members :
       Ok(from_file
          \o TagAll([i \in 1..Len(members) |->
                       LSPServerConfig(members[i][1], plugin_json, "PLUGIN")],
                    plugin_info)))
    ELSE Ok(from_file)))))

\* The body of _discover_plugins' loop for one plugin.
PluginItems(fs, plugin_info) ==
  With(_discover_plugin_lsp_servers(fs, plugin_info.install_path, plugin_info),
       LAMBDA lsp :
    IF lsp.exc # "none" THEN lsp
    ELSE Ok(StructuredScans(fs, plugin_info.install_path, "PLUGIN",
                            Some(plugin_info))
            \o _discover_plugin_mcps(fs, plugin_info.install_path, plugin_info)
            \o _discover_plugin_hooks(fs, plugin_info.install_path, plugin_info)
            \o lsp.items))

RECURSIVE PluginItemsFrom(_, _, _)
PluginItemsFrom(fs, plugins, acc) ==
  IF plugins = <<>> THEN Ok(acc)
  ELSE
  With(PluginItems(fs, Head(plugins)), LAMBDA r :
    IF r.exc # "none" THEN r
    ELSE PluginItemsFrom(fs, Tail(plugins), acc \o r.items))

\* _discover_plugins over get_enabled_plugins: a disabled plugin is skipped.
_discover_plugins_enabled_only(fs, reg) ==
  With(get_enabled_plugins(fs, reg), LAMBDA all :
    IF all.exc # "none" THEN [exc |-> all.exc, items |-> <<>>, reg |-> all.reg]
    ELSE
  With(PluginItemsFrom(fs, all.plugins, <<>>), LAMBDA r :
    [exc |-> r.exc, items |-> r.items, reg |-> all.reg]))

\* _discover_plugins: every plugin of get_all_plugins, enabled or not.
\* Returns [exc, items, reg].
_discover_plugins(fs, reg) ==
  With(get_all_plugins(fs, reg), LAMBDA all :
    IF all.exc # "none" THEN [exc |-> all.exc, items |-> <<>>, reg |-> all.reg]
    ELSE
  With(PluginItemsFrom(fs, all.plugins, <<>>), LAMBDA r :
    [exc |-> r.exc, items |-> r.items, reg |-> all.reg]))

(***************************************************************************)
(* The orchestrator (ConfigDiscoveryService)                               *)
(*                                                                         *)
(* The service's state is svc = [cache, registry, heap]: cache is None or  *)
(* <<id>>, the identity of the cached list object; heap maps the identity  *)
(* of every live list object to its content; registry is the plugin        *)
(* loader's _registry.                                                     *)
(***************************************************************************)

\* discover_all past the cache test: the scans in the code's order, then the
\* sort.  Returns [exc, items, reg]; when exc is raised, items is the local
\* list as built so far.
DiscoverPass(fs, reg) ==
  With(UserProjectScans(fs) \o _discover_memory_files(fs) \o _discover_rules(fs),
       LAMBDA customizations :
  With(_discover_mcps(fs), LAMBDA mcps :
    IF mcps.exc # "none"
    THEN [exc |-> mcps.exc, items |-> customizations, reg |-> reg]
    ELSE
  With(customizations \o mcps.items \o _discover_hooks(fs), LAMBDA before_plugins :
  With(_discover_plugins(fs, reg), LAMBDA plugins :
    IF plugins.exc # "none"
    THEN [exc |-> plugins.exc, items |-> before_plugins, reg |-> plugins.reg]
    ELSE [exc |-> "none",
          items |-> _sort_customizations(before_plugins \o plugins.items),
          reg |-> plugins.reg]))))

\* The identity of a newly created list: one no live object has.
Fresh(live) ==
  CHOOSE i \in 1..(Cardinality(live) + 1) :
    i \notin live /\ \A j \in 1..(i - 1) : j \in live

\* heap with a new list object id holding items
Alloc(heap, id, items) ==
  [i \in DOMAIN heap \cup {id} |-> IF i = id THEN items ELSE heap[i]]

\* discover_all with the cache test left out: every call scans.
discover_all_rescan(fs, svc, pinned) ==
  With(DiscoverPass(fs, svc.registry), LAMBDA pass :
  With(Fresh(pinned), LAMBDA id :
    IF pass.exc # "none"
    THEN [exc |-> pass.exc, ref |-> None,
          svc |-> [svc EXCEPT !.registry = pass.reg]]
    ELSE [exc |-> "none", ref |-> Some(id),
          svc |-> [cache |-> Some(id), registry |-> pass.reg,
                   heap |-> Alloc(svc.heap, id, pass.items)]]))

\* discover_all with self._cache bound to the list before it is filled: a
\* pass that raises leaves the list as built so far in the cache.
discover_all_partial(fs, svc, pinned) ==
  IF svc.cache # None
  THEN [exc |-> "none", ref |-> svc.cache, svc |-> svc]
  ELSE
  With(DiscoverPass(fs, svc.registry), LAMBDA pass :
  With(Fresh(pinned), LAMBDA id :
    [exc |-> pass.exc,
     ref |-> IF pass.exc = "none" THEN Some(id) ELSE None,
     svc |-> [cache |-> Some(id), registry |-> pass.reg,
              heap |-> Alloc(svc.heap, id, pass.items)]]))

\* discover_all(): the cached list object when there is one, else a pass
\* whose sorted result becomes the cache.  pinned: the identities the caller
\* holds.  Returns [exc, ref, svc].
discover_all(fs, svc, pinned) ==
  IF svc.cache # None
  THEN [exc |-> "none", ref |-> svc.cache, svc |-> svc]
  ELSE
  With(DiscoverPass(fs, svc.registry), LAMBDA pass :
  With(Fresh(pinned), LAMBDA id :
    IF pass.exc # "none"
    THEN [exc |-> pass.exc, ref |-> None,
          svc |-> [svc EXCEPT !.registry = pass.reg]]
    ELSE [exc |-> "none", ref |-> Some(id),
          svc |-> [cache |-> Some(id), registry |-> pass.reg,
                   heap |-> Alloc(svc.heap, id, pass.items)]]))

\* refresh with the cache left in place
refresh_keep_cache(fs, svc, pinned) ==
  discover_all(fs, [svc EXCEPT !.registry = None], pinned)

\* refresh that empties the cached list object and fills it again
refresh_in_place(fs, svc, pinned) ==
  With(discover_all(fs, [svc EXCEPT !.cache = None, !.registry = None], pinned),
       LAMBDA r :
    IF svc.cache = None \/ r.exc # "none" THEN r
    ELSE [exc |-> "none", ref |-> svc.cache,
          svc |-> [cache |-> svc.cache, registry |-> r.svc.registry,
                   heap |-> Alloc(svc.heap, svc.cache[1],
                                  r.svc.heap[r.ref[1]])]])

\* refresh(): self._cache = None; self._plugin_loader.refresh(); discover_all()
refresh(fs, svc, pinned) ==
  discover_all(fs, [svc EXCEPT !.cache = None, !.registry = None], pinned)

\* discover_by_level filtering the list discover_all returned in place
discover_by_level_in_place(fs, svc, pinned, level) ==
  With(discover_all(fs, svc, pinned), LAMBDA r :
    IF r.exc # "none" THEN [exc |-> r.exc, items |-> <<>>, svc |-> r.svc]
    ELSE
  With(SelectSeq(r.svc.heap[r.ref[1]], LAMBDA c : c.level = level), LAMBDA kept :
    [exc |-> "none", items |-> kept,
     svc |-> [r.svc EXCEPT !.heap = Alloc(r.svc.heap, r.ref[1], kept)]]))

\* [c for c in self.discover_all() if c.level == level]
\* Returns [exc, items, svc].
discover_by_level(fs, svc, pinned, level) ==
  With(discover_all(fs, svc, pinned), LAMBDA r :
    IF r.exc # "none" THEN [exc |-> r.exc, items |-> <<>>, svc |-> r.svc]
    ELSE [exc |-> "none",
          items |-> SelectSeq(r.svc.heap[r.ref[1]], LAMBDA c : c.level = level),
          svc |-> r.svc])

\* [c for c in self.discover_all() if c.type == ctype]
discover_by_type(fs, svc, pinned, ctype) ==
  With(discover_all(fs, svc, pinned), LAMBDA r :
    IF r.exc # "none" THEN [exc |-> r.exc, items |-> <<>>, svc |-> r.svc]
    ELSE [exc |-> "none",
          items |-> SelectSeq(r.svc.heap[r.ref[1]], LAMBDA c : c.type = ctype),
          svc |-> r.svc])

\* discover_from_directory(plugin_dir, plugin_info): the scan rules at Plugin
\* scope, the plugin's manifests when plugin_info is given, then the sort.
\* Neither the cache nor the registry is used.  Returns [exc, items].
discover_from_directory(fs, plugin_dir, plugin_info) ==
  With(StructuredScans(fs, plugin_dir, "PLUGIN", plugin_info), LAMBDA scans :
    IF plugin_info = None THEN Ok(_sort_customizations(scans))
    ELSE
  With(_discover_plugin_lsp_servers(fs, plugin_dir, plugin_info[1]), LAMBDA lsp :
    IF lsp.exc # "none" THEN lsp
    ELSE Ok(_sort_customizations(
              scans \o _discover_plugin_mcps(fs, plugin_dir, plugin_info[1])
                    \o _discover_plugin_hooks(fs, plugin_dir, plugin_info[1])
                    \o lsp.items))))

(***************************************************************************)
(* The filter service (services/filter.py)                                 *)
(***************************************************************************)

\* _matches_query comparing the name as written, not lower-cased.
_matches_query_case_sensitive(customization, query) ==
  IF IsSubstring(query, customization.name) THEN TRUE
  ELSE IF customization.plugin_info # None
  THEN
  With(Lower(customization.plugin_info[1].short_name \o <<":">>), LAMBDA prefix :
    IsSubstring(query, prefix) \/ IsSubstring(query, prefix \o customization.name))
  ELSE FALSE

\* FilterService._matches_query(customization, query): query arrives
\* lower-cased.
_matches_query(customization, query) ==
  IF IsSubstring(query, Lower(customization.name)) THEN TRUE
  ELSE IF customization.plugin_info # None
  THEN
  With(Lower(customization.plugin_info[1].short_name \o <<":">>), LAMBDA prefix :
  With(prefix \o Lower(customization.name), LAMBDA full_name :
    IsSubstring(query, prefix) \/ IsSubstring(query, full_name)))
  ELSE FALSE

\* filter with the test "level is not None" left out: the level stage always
\* runs.
filter_level_always(heap, customizations, query, level) ==
  With(SelectSeq(heap[customizations[1]], LAMBDA c : Some(c.level) = level),
       LAMBDA by_level :
  With(IF query # <<>>
       THEN SelectSeq(by_level, LAMBDA c : _matches_query(c, Lower(query)))
       ELSE by_level, LAMBDA result :
  With(Fresh(DOMAIN heap), LAMBDA id :
    [ref |-> Some(id), heap |-> Alloc(heap, id, result)])))

\* filter with the query stage run over the input list instead of over the
\* result of the level stage.
filter_query_over_input(heap, customizations, query, level) ==
  IF level = None /\ query = <<>> THEN [ref |-> customizations, heap |-> heap]
  ELSE
  With(IF query # <<>>
       THEN SelectSeq(heap[customizations[1]],
                      LAMBDA c : _matches_query(c, Lower(query)))
       ELSE SelectSeq(heap[customizations[1]], LAMBDA c : c.level = level[1]),
       LAMBDA result :
  With(Fresh(DOMAIN heap), LAMBDA id :
    [ref |-> Some(id), heap |-> Alloc(heap, id, result)]))

\* FilterService.filter(customizations, query, level): customizations is the
\* identity of the list given, level is None or <<level>>.  result starts as
\* the list given; each stage that runs binds it to a new list.  Returns
\* [ref, heap]: the identity of the list returned and the heap afterwards.
filter(heap, customizations, query, level) ==
  IF level = None /\ query = <<>> THEN [ref |-> customizations, heap |-> heap]
  ELSE
  With(IF level # None
       THEN SelectSeq(heap[customizations[1]], LAMBDA c : c.level = level[1])
       ELSE heap[customizations[1]], LAMBDA by_level :
  With(IF query # <<>>
       THEN SelectSeq(by_level, LAMBDA c : _matches_query(c, Lower(query)))
       ELSE by_level, LAMBDA result :
  With(Fresh(DOMAIN heap), LAMBDA id :
    [ref |-> Some(id), heap |-> Alloc(heap, id, result)])))

(***************************************************************************)
(* The display layer: one TypePanel per customization type (widgets/       *)
(* type_panel.py) and the application that feeds them (app.py).  Setting   *)
(* the reactive attribute customizations runs watch_customizations.        *)
(***************************************************************************)

Max(a, b) == IF a >= b THEN a ELSE b

\* TypePanel.__init__: no items, the selection at index 0
TypePanel(customization_type) ==
  [customization_type |-> customization_type, customizations |-> <<>>,
   selected_index |-> 0]

\* watch_customizations: the selection is pulled back into the list
watch_customizations(panel) ==
  IF panel.selected_index >= Len(panel.customizations)
  THEN [panel EXCEPT !.selected_index = Max(0, Len(panel.customizations) - 1)]
  ELSE panel

\* A variant that keeps the items of every type.
set_customizations_unfiltered(panel, customizations) ==
  watch_customizations([panel EXCEPT !.customizations = customizations])

\* set_customizations: the items of the panel's type, in their order
set_customizations(panel, customizations) ==
  watch_customizations(
    [panel EXCEPT !.customizations =
       SelectSeq(customizations, LAMBDA c : c.type = panel.customization_type)])

\* selected_customization: the item at the selection (indices from 0), or None
selected_customization(panel) ==
  IF panel.customizations # <<>> /\ 0 <= panel.selected_index
       /\ panel.selected_index < Len(panel.customizations)
  THEN Some(panel.customizations[panel.selected_index + 1])
  ELSE None

\* A variant that wraps around to the first item.
action_cursor_down_wrapping(panel) ==
  IF panel.customizations # <<>>
  THEN [panel EXCEPT !.selected_index = (@ + 1) % Len(panel.customizations)]
  ELSE panel

action_cursor_down(panel) ==
  IF panel.customizations # <<>>
       /\ panel.selected_index < Len(panel.customizations) - 1
  THEN [panel EXCEPT !.selected_index = @ + 1]
  ELSE panel

action_cursor_up(panel) ==
  IF panel.customizations # <<>> /\ panel.selected_index > 0
  THEN [panel EXCEPT !.selected_index = @ - 1]
  ELSE panel

action_cursor_top(panel) ==
  IF panel.customizations # <<>> THEN [panel EXCEPT !.selected_index = 0]
  ELSE panel

action_cursor_bottom(panel) ==
  IF panel.customizations # <<>>
  THEN [panel EXCEPT !.selected_index = Len(panel.customizations) - 1]
  ELSE panel

\* LazyClaude.__init__: no level filter, no search query; running is set
\* once on_mount has loaded the list.
LazyClaude == [level_filter |-> None, search_query |-> <<>>, running |-> FALSE]

\* compose: one panel per customization type
compose ==
  [t \in {CustomizationType[i] : i \in 1..Len(CustomizationType)} |-> TypePanel(t)]

\* _get_filtered_customizations: the items of the list filter returns for
\* the application's list (customizations is None for the [] of __init__)
_get_filtered_customizations(heap, customizations, a) ==
  IF customizations = None THEN <<>>
  ELSE With(filter(heap, customizations, a.search_query, a.level_filter),
            LAMBDA r : r.heap[r.ref[1]])

\* _update_panels: every panel is given the filtered list
_update_panels(heap, customizations, a, ps) ==
  With(_get_filtered_customizations(heap, customizations, a), LAMBDA filtered :
    [t \in DOMAIN ps |-> set_customizations(ps[t], filtered)])

\* The body the four level-filter actions share
SetLevel(heap, customizations, a, ps, level) ==
  With([a EXCEPT !.level_filter = level], LAMBDA a2 :
    [app |-> a2, panels |-> _update_panels(heap, customizations, a2, ps)])

action_filter_all(heap, customizations, a, ps) ==
  SetLevel(heap, customizations, a, ps, None)

action_filter_user(heap, customizations, a, ps) ==
  SetLevel(heap, customizations, a, ps, Some("USER"))

action_filter_project(heap, customizations, a, ps) ==
  SetLevel(heap, customizations, a, ps, Some("PROJECT"))

action_filter_plugin(heap, customizations, a, ps) ==
  SetLevel(heap, customizations, a, ps, Some("PLUGIN"))

on_filter_input_filter_changed(heap, customizations, a, ps, query) ==
  With([a EXCEPT !.search_query = query], LAMBDA a2 :
    [app |-> a2, panels |-> _update_panels(heap, customizations, a2, ps)])

\* A variant that leaves the panels as they are.
on_filter_input_filter_cancelled_stale(heap, customizations, a, ps) ==
  [app |-> [a EXCEPT !.search_query = <<>>], panels |-> ps]

on_filter_input_filter_cancelled(heap, customizations, a, ps) ==
  With([a EXCEPT !.search_query = <<>>], LAMBDA a2 :
    [app |-> a2, panels |-> _update_panels(heap, customizations, a2, ps)])

\* on_filter_input_filter_applied hides the input and moves the focus
on_filter_input_filter_applied(a, ps) == [app |-> a, panels |-> ps]

\* The list a call of the service gave: assigned to _customizations and
\* shown, or the exception leaves the application as it was.
Loaded(r, customizations, a, ps) ==
  IF r.exc # "none"
  THEN [exc |-> r.exc, svc |-> r.svc, customizations |-> customizations,
        app |-> a, panels |-> ps]
  ELSE [exc |-> "none", svc |-> r.svc, customizations |-> r.ref, app |-> a,
        panels |-> _update_panels(r.svc.heap, r.ref, a, ps)]

\* A variant that clears the search query.
action_refresh_clearing(fs, svc, pinned, customizations, a, ps) ==
  Loaded(refresh(fs, svc, pinned), customizations,
         [a EXCEPT !.search_query = <<>>], ps)

\* action_refresh: _customizations = refresh(), then _update_panels
action_refresh(fs, svc, pinned, customizations, a, ps) ==
  Loaded(refresh(fs, svc, pinned), customizations, a, ps)

\* _load_customizations: _customizations = discover_all(), then _update_panels
_load_customizations(fs, svc, pinned, customizations, a, ps) ==
  Loaded(discover_all(fs, svc, pinned), customizations, a, ps)


(***************************************************************************)
(* The files and documents of the model's filesystems                      *)
(***************************************************************************)

UserDeploy == <<"h", ".claude", "commands", "deploy.md">>
ProjectDeploy == <<"p", ".claude", "commands", "deploy.md">>
ProjectNested == <<"p", ".claude", "commands", "nest", "Build.md">>
UserAgent == <<"h", ".claude", "agents", "helper.md">>
UserSkill == <<"h", ".claude", "skills", "x", "SKILL.md">>
ProjectSkill == <<"p", ".claude", "skills", "beta", "SKILL.md">>
ConfigClaudeMd == Join(project_config_path, "CLAUDE.md")
RootClaudeMd == Join(project_root, "CLAUDE.md")
NestedClaudeMd == <<"p", "sub", "CLAUDE.md">>
RulesClaudeMd == <<"p", ".claude", "rules", "CLAUDE.md">>
UserClaudeMd == Join(user_config_path, "CLAUDE.md")
UserAgentsMd == Join(user_config_path, "AGENTS.md")
RootLocalMd == Join(project_root, "CLAUDE.local.md")
UserRule == <<"h", ".claude", "rules", "style.md">>

PluginParent == <<"h", ".claude", "plugins", "plug">>
PluginId == <<"p", "l", "u", "g", "@", "m">>
VersionDir(v) == Join(PluginParent, v)
PluginCommand(v) == VersionDir(v) \o <<"commands", "deploy.md">>

ServerS1 == <<"s", "1">>
ServerLoc == <<"l", "o", "c">>

EmptyDict == JDict(<<>>)

\* ~/.claude.json with one user-level server and one server of this project
ClaudeJsonDoc ==
  JDict(<< <<"mcpServers", JDict(<< <<ServerS1, EmptyDict>> >>)>>,
           <<"projects",
             JDict(<< <<project_path,
                        JDict(<< <<"mcpServers",
                                   JDict(<< <<ServerLoc, EmptyDict>> >>)>> >>)>> >>)>> >>)

\* installed_plugins.json: one plugin whose installPath names version 1.0.0
InstalledDoc ==
  JDict(<< <<"plugins",
             JDict(<< <<PluginId,
                        JDict(<< <<"installPath", JStr(VersionDir("1.0.0"))>>,
                                 <<"version", JStr(Chars["1.0.0"])>> >>)>> >>)>> >>)

JsonFile(doc) == [st |-> "ok", data |-> doc]
JsonMissing == [st |-> "missing"]
JsonMalformed == [st |-> "malformed"]

\* The content of the JSON file at path p
JsonAt(fs, p) == IF p \in DOMAIN fs.json THEN fs.json[p] ELSE JsonMissing

\* fs with the JSON file at path p set to content j
WithJson(fs, p, j) ==
  [fs EXCEPT !.json = [q \in DOMAIN fs.json \cup {p} |->
                         IF q = p THEN j ELSE fs.json[q]]]

EmptyFs ==
  [files |-> {}, dirs |-> {}, links |-> {}, unreadable |-> {},
   json |-> <<>>, rev |-> FALSE]

\* A populated filesystem: commands at both scopes, memory files, MCP
\* servers and one installed plugin with two version directories.
BaseFs ==
  [files |-> {UserDeploy, ProjectDeploy, UserSkill, ConfigClaudeMd,
              PluginCommand("10.0.0")},
   dirs |-> {VersionDir("2.0.0"), VersionDir("10.0.0")},
   links |-> {}, unreadable |-> {},
   json |-> (claude_json :> JsonFile(ClaudeJsonDoc))
            @@ (installed_plugins_json :> JsonFile(InstalledDoc)),
   rev |-> FALSE]

(***************************************************************************)
(* Families of filesystems for one discovery pass                          *)
(***************************************************************************)

Fs(files, dirs, links, unreadable, json, rev) ==
  [files |-> files, dirs |-> dirs, links |-> links, unreadable |-> unreadable,
   json |-> json, rev |-> rev]

\* Memory files: any of the candidates as regular files, one of them
\* possibly a symbolic link to another.
MemFiles ==
  {ConfigClaudeMd, RootClaudeMd, NestedClaudeMd, RulesClaudeMd, UserClaudeMd,
   UserAgentsMd}

MemLinks ==
  { {}, {<<RootClaudeMd, ConfigClaudeMd>>}, {<<UserAgentsMd, UserClaudeMd>>},
    {<<NestedClaudeMd, RootClaudeMd>>}, {<<RootLocalMd, NestedClaudeMd>>} }

MemFs ==
  { Fs(F, {}, L, {}, <<>>, FALSE) :
      <<F, L>> \in { x \in (SUBSET MemFiles) \X MemLinks :
                       \A l \in x[2] : l[1] \notin x[1] /\ l[2] \in x[1] } }

\* Commands, agents and skills at both scopes, listed in either order, the
\* user's skill possibly unreadable.
ScanPaths ==
  {UserDeploy, ProjectDeploy, ProjectNested, UserAgent, UserSkill, ProjectSkill}

ScanFs ==
  { Fs(x[1], {}, {}, x[2], <<>>, x[3]) :
      x \in { y \in (SUBSET ScanPaths) \X {{}, {UserSkill}} \X BOOLEAN :
                 y[2] \subseteq y[1] } }

\* ~/.claude.json: absent, no JSON, an object, an array
ClaudeDocs ==
  {JsonMissing, JsonMalformed, JsonFile(ClaudeJsonDoc), JsonFile(JList(<<>>))}

\* installed_plugins.json: absent, one plugin, an array
InstalledDocs == {JsonMissing, JsonFile(InstalledDoc), JsonFile(JList(<<>>))}

VersionNames == {"2.0.0", "10.0.0", "latest"}

\* A plugin's .lsp.json declaring two languages
LspFile == Join(VersionDir("10.0.0"), ".lsp.json")
LspDoc ==
  JDict(<< <<Chars["x"], JDict(<< <<"command", JStr(Chars["x"])>> >>)>>,
           <<Chars["deep"], JDict(<< <<"command", JStr(Chars["x"])>> >>)>> >>)

\* The plugin's .claude-plugin/plugin.json declaring one language
PluginJson == VersionDir("10.0.0") \o <<".claude-plugin", "plugin.json">>
PluginJsonDoc ==
  JDict(<< <<"lspServers",
             JDict(<< <<Chars["beta"], JDict(<< <<"command", JStr(Chars["x"])>> >>)>> >>)>> >>)

JsonUnreadable == [st |-> "unreadable"]

\* .lsp.json and plugin.json of the plugin: each absent, well formed, no
\* JSON or unreadable.
LspManifests ==
  { <<JsonMissing, JsonMissing>>, <<JsonFile(LspDoc), JsonMissing>>,
    <<JsonMalformed, JsonMissing>>, <<JsonUnreadable, JsonMissing>>,
    <<JsonMissing, JsonFile(PluginJsonDoc)>>, <<JsonMissing, JsonMalformed>>,
    <<JsonMissing, JsonUnreadable>>, <<JsonFile(LspDoc), JsonFile(PluginJsonDoc)>> }

\* Manifests and the version directories of the plugin: the installPath of
\* the manifest (version 1.0.0) is never among the directories.
ManifestFs ==
  { Fs(IF "10.0.0" \in x[1] THEN {PluginCommand("10.0.0")} ELSE {},
       {VersionDir(v) : v \in x[1]}, {}, {},
       (claude_json :> x[2]) @@ (installed_plugins_json :> x[3])
         @@ (LspFile :> x[4][1]) @@ (PluginJson :> x[4][2]),
       FALSE) :
      x \in { y \in (SUBSET VersionNames) \X ClaudeDocs \X InstalledDocs
                       \X LspManifests :
                 y[4] # <<JsonMissing, JsonMissing>> => "10.0.0" \in y[1] } }

\* A second plugin, installed from a local directory; its id has no "@".
LocalPluginId == <<"x">>
LocalPluginDir == <<"h", ".claude", "plugins", "deep">>

\* installed_plugins.json with two plugins: the installPath of the first
\* names a version directory that is never there.
TwoPluginsDoc ==
  JDict(<< <<"plugins",
             JDict(<< <<PluginId,
                        JDict(<< <<"installPath", JStr(VersionDir("x"))>>,
                                 <<"version", JStr(Chars["x"])>> >>)>>,
                      <<LocalPluginId,
                        JDict(<< <<"installPath", JStr(LocalPluginDir)>>,
                                 <<"isLocal", JBool(TRUE)>> >>)>> >>)>> >>)

\* settings.json with the given enabledPlugins members
SettingsDoc(flags) == JDict(<< <<"enabledPlugins", JDict(flags)>> >>)

LoaderSettings ==
  { JsonMissing,
    JsonFile(SettingsDoc(<< <<PluginId, JBool(FALSE)>> >>)),
    JsonFile(SettingsDoc(<< <<PluginId, JBool(TRUE)>>,
                            <<LocalPluginId, JBool(FALSE)>> >>)) }

LoaderInstalled == {JsonMissing, JsonFile(InstalledDoc), JsonFile(TwoPluginsDoc)}

\* A command file of the plugin installed from a local directory.
LocalPluginCommand == LocalPluginDir \o <<"commands", "deploy.md">>

\* Installed plugins with a command file in every directory that exists,
\* under each settings.json: the plugins enabled, disabled or not mentioned.
FlagFs ==
  { Fs({PluginCommand(v) : v \in x[1]} \cup (IF x[2] = {} THEN {} ELSE {LocalPluginCommand}),
       {VersionDir(v) : v \in x[1]} \cup x[2], {}, {},
       (installed_plugins_json :> x[3]) @@ (user_settings_json :> x[4]),
       FALSE) :
      x \in {{}, {"1.0.0"}, {"2.0.0", "10.0.0"}} \X {{}, {LocalPluginDir}}
              \X {JsonFile(InstalledDoc), JsonFile(TwoPluginsDoc)}
              \X LoaderSettings }

\* ~/.claude.json with the given members of "projects"
ProjectsDoc(entries) == JDict(<< <<"projects", JDict(entries)>> >>)

\* A project's entry with the given servers
ServersEntry(names) ==
  JDict(<< <<"mcpServers",
             JDict([i \in 1..Len(names) |-> <<names[i], EmptyDict>>])>> >>)

ForwardKey == <<"/", "p">>
BackKey == <<"\\", "p">>
OtherKey == <<"/", "x">>

\* The project's entry under either key form, under both, under neither,
\* without mcpServers; no "projects" at all.
LocalMcpDocs ==
  { ProjectsDoc(<< <<ForwardKey, ServersEntry(<<ServerLoc, ServerS1>>)>> >>),
    ProjectsDoc(<< <<BackKey, ServersEntry(<<ServerLoc>>)>> >>),
    ProjectsDoc(<< <<BackKey, ServersEntry(<<ServerS1>>)>>,
                   <<ForwardKey, ServersEntry(<<ServerLoc>>)>> >>),
    ProjectsDoc(<< <<OtherKey, ServersEntry(<<ServerLoc>>)>> >>),
    ProjectsDoc(<< <<ForwardKey, EmptyDict>> >>),
    ProjectsDoc(<< <<BackKey, ServersEntry(<<>>)>> >>),
    ProjectsDoc(<<>>),
    EmptyDict }

LocalMcpFs ==
  { Fs({}, {}, {}, {}, (claude_json :> JsonFile(d)), FALSE) : d \in LocalMcpDocs }

PassFs == MemFs \cup ScanFs \cup ManifestFs \cup FlagFs \cup LocalMcpFs

(***************************************************************************)
(* State                                                                   *)
(*                                                                         *)
(*   fs        the filesystem                                              *)
(*   cache     ConfigDiscoveryService._cache: None or <<id>>               *)
(*   registry  PluginLoader._registry: None or <<[installed, enabled]>>    *)
(*   heap      the content of every live list object, by identity          *)
(*   ret       what the last call returned: [op, arg, exc, ref, items, at]; *)
(*             ref is the identity of the list discover_all / refresh      *)
(*             returned, items the list another call built, at the number  *)
(*             of changes made to the filesystem before the call           *)
(*   held      a reference the caller kept from an earlier return          *)
(*   snap      the filesystem as the last refresh() found it, when that    *)
(*             refresh() returned a list                                   *)
(*   first     the first list discover_all returned since construction or  *)
(*             the last refresh(): [ref, items]                            *)
(*   edits     the number of changes made to the filesystem                *)
(*   app       the application: its level filter and search query, and     *)
(*             whether it is running; its list _customizations is held     *)
(*   panels    the type panels: the items and the selection of each        *)
(***************************************************************************)
VARIABLES fs, cache, registry, heap, ret, held, snap, first, edits, app, panels

vars == <<fs, cache, registry, heap, ret, held, snap, first, edits, app, panels>>

\* The most changes to the filesystem in one behaviour.
MaxEdits == 1

Svc == [cache |-> cache, registry |-> registry, heap |-> heap]

Ids(opt) == {opt[i] : i \in 1..Len(opt)}

\* The list objects the caller can still reach.
Pinned == Ids(held) \cup Ids(ret.ref)

Returned(op, arg, exc, ref, items) ==
  [op |-> op, arg |-> arg, exc |-> exc, ref |-> ref, items |-> items,
   at |-> edits]

\* The service's new state and the call's return value take effect; list
\* objects nothing refers to any more are freed.
Commit(svc2, newret) ==
  /\ cache' = svc2.cache
  /\ registry' = svc2.registry
  /\ ret' = newret
  /\ heap' = [i \in DOMAIN svc2.heap
                     \cap (Ids(svc2.cache) \cup Ids(held) \cup Ids(newret.ref))
                |-> svc2.heap[i]]
  /\ UNCHANGED <<fs, held, edits, app, panels>>

InitService ==
  /\ edits = 0
  /\ cache = None
  /\ registry = None
  /\ heap = <<>>
  /\ ret = Returned("init", "", "none", None, <<>>)
  /\ held = None
  /\ snap = None
  /\ first = None
  /\ app = LazyClaude
  /\ panels = compose

Init == fs \in {EmptyFs, BaseFs} /\ InitService

\* The scopes and kinds the callers of the model ask for.
QueryLevels == {"USER", "PLUGIN"}
QueryTypes == {"SLASH_COMMAND", "MCP", "SKILL"}

DiscoverAll ==
  /\ UNCHANGED snap
  /\ With(discover_all(fs, Svc, Pinned), LAMBDA r :
       /\ Commit(r.svc, Returned("discover_all", "", r.exc, r.ref, <<>>))
       /\ first' = IF first = None /\ r.exc = "none"
                   THEN Some([ref |-> r.ref, items |-> r.svc.heap[r.ref[1]]])
                   ELSE first)

Refresh ==
  /\ first' = None
  /\ With(refresh(fs, Svc, Pinned), LAMBDA r :
       /\ Commit(r.svc, Returned("refresh", "", r.exc, r.ref, <<>>))
       /\ snap' = IF r.exc = "none" THEN Some(fs) ELSE None)

DiscoverByLevel ==
  \E level \in QueryLevels :
    /\ UNCHANGED <<snap, first>>
    /\ With(discover_by_level(fs, Svc, Pinned, level), LAMBDA r :
         Commit(r.svc, Returned("discover_by_level", level, r.exc, None, r.items)))

DiscoverByType ==
  \E ctype \in QueryTypes :
    /\ UNCHANGED <<snap, first>>
    /\ With(discover_by_type(fs, Svc, Pinned, ctype), LAMBDA r :
         Commit(r.svc, Returned("discover_by_type", ctype, r.exc, None, r.items)))

\* The caller keeps the list it was last given.
Hold ==
  /\ ret.ref # None
  /\ held # ret.ref
  /\ held' = ret.ref
  /\ heap' = [i \in DOMAIN heap \cap (Ids(cache) \cup Ids(ret.ref)) |-> heap[i]]
  /\ UNCHANGED <<fs, cache, registry, ret, snap, first, edits, app, panels>>

(***************************************************************************)
(* The environment changes the scanned files between calls.                *)
(***************************************************************************)

EditFiles == {UserDeploy, RootClaudeMd}

EditDirs == {VersionDir("10.0.0")}

\* An array at the top level of ~/.claude.json: valid JSON, no object.
ListDoc == JList(<<>>)

EditJson ==
  { <<claude_json, JsonFile(ClaudeJsonDoc)>>, <<claude_json, JsonFile(ListDoc)>> }

Edited(newfs) ==
  /\ edits < MaxEdits
  /\ fs' = newfs
  /\ edits' = edits + 1
  /\ UNCHANGED <<cache, registry, heap, ret, held, snap, first, app, panels>>

CreateFile ==
  \E p \in EditFiles \ fs.files : Edited([fs EXCEPT !.files = @ \cup {p}])

DeleteFile ==
  \E p \in EditFiles \cap fs.files : Edited([fs EXCEPT !.files = @ \ {p}])

MakeDir ==
  \E d \in EditDirs \ fs.dirs : Edited([fs EXCEPT !.dirs = @ \cup {d}])

RemoveDir ==
  \E d \in EditDirs \cap fs.dirs :
    Edited([fs EXCEPT !.dirs = @ \ {d},
                      !.files = {f \in @ : ~IsUnder(d, f)}])

WriteJson ==
  \E e \in EditJson :
    /\ JsonAt(fs, e[1]) # e[2]
    /\ Edited(WithJson(fs, e[1], e[2]))

Next ==
  \/ DiscoverAll
  \/ Refresh
  \/ DiscoverByLevel
  \/ DiscoverByType
  \/ Hold
  \/ CreateFile
  \/ DeleteFile
  \/ MakeDir
  \/ RemoveDir
  \/ WriteJson

Spec == Init /\ [][Next]_vars

(***************************************************************************)
(* One discovery pass over each filesystem of the families above: the      *)
(* service is constructed and called, the files stay as they are.          *)
(***************************************************************************)

\* The plugin previewed by discover_from_directory.
PreviewInfo ==
  [plugin_id |-> PluginId, short_name |-> ShortName(PluginId),
   version |-> Chars["10.0.0"], install_path |-> VersionDir("10.0.0"),
   is_local |-> FALSE, is_enabled |-> TRUE]

PreviewDirs == {VersionDir("10.0.0"), project_config_path}

\* discover_from_directory keeping its sorted result as self._cache
DiscoverFromDirectory_caching ==
  \E plugin_dir \in PreviewDirs, plugin_info \in {None, Some(PreviewInfo)} :
    /\ UNCHANGED <<snap, first>>
    /\ With(discover_from_directory(fs, plugin_dir, plugin_info), LAMBDA r :
       With(Fresh(Pinned), LAMBDA id :
         Commit([cache |-> Some(id), registry |-> registry,
                 heap |-> Alloc(heap, id, r.items)],
                Returned("discover_from_directory",
                         [dir |-> plugin_dir, info |-> plugin_info], r.exc,
                         None, r.items))))

\* A call of discover_from_directory: it reads neither self._cache nor the
\* plugin loader and assigns neither.
DiscoverFromDirectory ==
  \E plugin_dir \in PreviewDirs, plugin_info \in {None, Some(PreviewInfo)} :
    /\ UNCHANGED <<snap, first>>
    /\ With(discover_from_directory(fs, plugin_dir, plugin_info), LAMBDA r :
         Commit(Svc, Returned("discover_from_directory",
                              [dir |-> plugin_dir, info |-> plugin_info], r.exc,
                              None, r.items)))

InitPass == fs \in PassFs /\ InitService

NextPass ==
  \/ DiscoverAll
  \/ Refresh
  \/ DiscoverFromDirectory

SpecPass == InitPass /\ [][NextPass]_vars

(***************************************************************************)
(* Skills: SKILL.md inside a directory of a skills root, and at other      *)
(* depths.                                                                 *)
(***************************************************************************)

RootSkill == <<"h", ".claude", "skills", "SKILL.md">>
DeepSkill == <<"p", ".claude", "skills", "beta", "deep", "SKILL.md">>

SkillFs ==
  { Fs(x[1], {}, {}, x[2], <<>>, x[3]) :
      x \in { y \in (SUBSET {UserSkill, ProjectSkill, RootSkill, DeepSkill})
                       \X {{}, {UserSkill}} \X BOOLEAN :
                 y[2] \subseteq y[1] } }

InitSkills == fs \in SkillFs /\ InitService

NextSkills ==
  \/ DiscoverByType
  \/ Refresh

SpecSkills == InitSkills /\ [][NextSkills]_vars

(***************************************************************************)
(* The display layer filters the list it holds (app.py: the list that      *)
(* discover_all or refresh returned, by the search query and the level     *)
(* chosen).                                                                *)
(***************************************************************************)

\* A populated filesystem with a nested command whose name has a capital
\* letter, and an agent.
NamesFs == [BaseFs EXCEPT !.files = @ \cup {ProjectNested, UserAgent}]

\* The search strings typed: none, lower and upper case, one that matches
\* a plugin's prefix only, one that spans the prefix and the name, one that
\* matches nothing.
Queries ==
  { <<>>, <<"d", "e">>, <<"D", "E">>, <<"b", "u", "i", "l", "d">>,
    <<"B", "U", "I", "L", "D">>, <<"u", "g", ":">>, <<"G", ":", "D">>,
    <<"z", "z">> }

FilterLevels == {None, Some("USER"), Some("PLUGIN"), Some("PROJECT_LOCAL")}

\* A call of filter on the list the caller holds.
Filter ==
  /\ held # None
  /\ UNCHANGED <<snap, first>>
  /\ \E query \in Queries, level \in FilterLevels :
       With(filter(heap, held, query, level), LAMBDA r :
         Commit([cache |-> cache, registry |-> registry, heap |-> r.heap],
                Returned("filter", [query |-> query, level |-> level], "none",
                         r.ref, <<>>)))

InitFilter == fs \in {EmptyFs, BaseFs, NamesFs} /\ InitService

NextFilter ==
  \/ DiscoverAll
  \/ Hold
  \/ Filter

SpecFilter == InitFilter /\ [][NextFilter]_vars

(***************************************************************************)
(* The plugin loader called on its own, over manifests and version         *)
(* directories that change between calls.                                  *)
(***************************************************************************)

\* The version directories under the first plugin's parent directory.
LoaderVersions ==
  { {}, {"1.0.0"}, {"2.0.0", "10.0.0"}, {"1.0.0", "2.0.0", "10.0.0"},
    {"latest", "beta"}, {"2.0.0", "latest"} }

\* Manifests that are unreadable, hold no JSON, or hold an array.
BadManifests == {JsonMalformed, JsonUnreadable, JsonFile(JList(<<>>))}

LoaderFs ==
  { Fs({}, {VersionDir(v) : v \in x[1]} \cup x[2], {}, {},
       (installed_plugins_json :> x[3]) @@ (user_settings_json :> x[4]),
       FALSE) :
      x \in (LoaderVersions \X {{}, {LocalPluginDir}} \X LoaderInstalled
                \X LoaderSettings)
             \cup ({{"1.0.0"}} \X {{}}
                     \X (BadManifests \cup {JsonFile(InstalledDoc)})
                     \X (BadManifests \cup {JsonMissing})) }

\* A call of the loader returns: the registry it leaves and the value given.
LoaderReturns(op, exc, reg, items) ==
  /\ registry' = reg
  /\ ret' = Returned(op, "", exc, None, items)

LoadRegistry ==
  /\ UNCHANGED <<fs, cache, heap, held, snap, first, edits, app, panels>>
  /\ With(load_registry(fs, registry), LAMBDA r :
       LoaderReturns("load_registry", r.exc, r.reg, <<>>))

GetAllPlugins ==
  /\ UNCHANGED <<fs, cache, heap, held, snap, first, edits, app, panels>>
  /\ With(get_all_plugins(fs, registry), LAMBDA r :
       LoaderReturns("get_all_plugins", r.exc, r.reg, r.plugins))

GetEnabledPlugins ==
  /\ UNCHANGED <<fs, cache, heap, held, snap, first, edits, app, panels>>
  /\ With(get_enabled_plugins(fs, registry), LAMBDA r :
       LoaderReturns("get_enabled_plugins", r.exc, r.reg, r.plugins))

\* PluginLoader.refresh(): self._registry = None
LoaderRefresh ==
  /\ UNCHANGED <<fs, cache, heap, held, snap, first, edits, app, panels>>
  /\ LoaderReturns("loader_refresh", "none", None, <<>>)

\* The manifests are rewritten or removed between calls.
ManifestEdits ==
  { <<installed_plugins_json, JsonMissing>>,
    <<installed_plugins_json, JsonFile(TwoPluginsDoc)>>,
    <<user_settings_json, JsonMissing>>,
    <<user_settings_json, JsonFile(SettingsDoc(<< <<PluginId, JBool(FALSE)>> >>))>> }

WriteManifest ==
  \E e \in ManifestEdits :
    /\ JsonAt(fs, e[1]) # e[2]
    /\ Edited(WithJson(fs, e[1], e[2]))

InitLoader == fs \in LoaderFs /\ InitService

NextLoader ==
  \/ LoadRegistry
  \/ GetAllPlugins
  \/ GetEnabledPlugins
  \/ LoaderRefresh
  \/ Refresh
  \/ WriteManifest

SpecLoader == InitLoader /\ [][NextLoader]_vars

(***************************************************************************)
(* The source path of a plugin: marketplaces of kind "directory" with      *)
(* their own manifest, other marketplaces, and the installed manifest.     *)
(***************************************************************************)

MarketRoot == <<"mk">>
SourceRel == <<"plugins", "plug">>
SourceDir == MarketRoot \o SourceRel
RealDir == <<"mk", "real">>
GoneRel == <<"gone">>

MarketName == <<"m">>
PlugName == <<"p", "l", "u", "g">>
Github == <<"g", "i", "t", "h", "u", "b">>

\* An entry of known_marketplaces.json with the given source object
MarketEntry(name, source) == <<name, JDict(<< <<"source", JDict(source)>> >>)>>

\* known_marketplaces.json: marketplace m of kind directory, of another
\* kind, absent, and of kind directory without a path.
KnownDocs ==
  { JDict(<< MarketEntry(MarketName, << <<"source", JStr(Directory)>>,
                                        <<"path", JStr(MarketRoot)>> >>) >>),
    JDict(<< MarketEntry(MarketName, << <<"source", JStr(Github)>>,
                                        <<"path", JStr(MarketRoot)>> >>) >>),
    JDict(<< MarketEntry(<<"o">>, << <<"source", JStr(Directory)>>,
                                     <<"path", JStr(MarketRoot)>> >>) >>),
    JDict(<< MarketEntry(MarketName, << <<"source", JStr(Directory)>> >>) >>) }

\* An entry of the plugins list of marketplace.json
ListedAt(name, source) == JDict(<< <<"name", JStr(name)>>, <<"source", JStr(source)>> >>)

PluginsDoc(plugins) == JDict(<< <<"plugins", JList(plugins)>> >>)

\* marketplace.json: the plugin listed, listed twice (the first source is
\* never there), another plugin listed, the plugin listed without a source,
\* and no plugins member.
MarketDocs ==
  { PluginsDoc(<< ListedAt(PlugName, SourceRel) >>),
    PluginsDoc(<< ListedAt(PlugName, GoneRel), ListedAt(PlugName, SourceRel) >>),
    PluginsDoc(<< ListedAt(<<"x">>, SourceRel) >>),
    PluginsDoc(<< JDict(<< <<"name", JStr(PlugName)>> >>) >>),
    JDict(<<>>) }

\* The plugin's source directory: absent, present, or a link to a directory
SourceDirs ==
  { <<{}, {}>>, <<{SourceDir}, {}>>, <<{RealDir}, {<<SourceDir, RealDir>>}>> }

SourceFs ==
  { Fs({}, x[1][1], x[1][2], {},
       (known_marketplaces_json :> x[2]) @@ (MarketplaceJson(MarketRoot) :> x[3])
         @@ (installed_plugins_json :> x[4]) @@ (user_settings_json :> JsonMissing),
       FALSE) :
      x \in SourceDirs
              \X ({JsonFile(d) : d \in KnownDocs} \cup BadManifests \cup {JsonMissing})
              \X ({JsonFile(d) : d \in MarketDocs} \cup BadManifests \cup {JsonMissing})
              \X LoaderInstalled }

\* The ids asked for: installed from marketplace m, installed from a local
\* directory, and a plugin of marketplace m that is not installed.
SourceIds == {PluginId, LocalPluginId, <<"x", "@", "m">>}

GetPluginSourcePath ==
  /\ UNCHANGED <<fs, cache, heap, held, snap, first, edits, app, panels>>
  /\ \E plugin_id \in SourceIds :
       With(get_plugin_source_path(fs, registry, plugin_id), LAMBDA r :
         /\ registry' = r.reg
         /\ ret' = Returned("get_plugin_source_path", plugin_id, r.exc, None,
                            r.path))

InitSource == fs \in SourceFs /\ InitService

NextSource ==
  \/ GetPluginSourcePath
  \/ LoaderRefresh
  \/ WriteManifest

SpecSource == InitSource /\ [][NextSource]_vars

(***************************************************************************)
(* The application: mounted once, then driven by its key bindings and the  *)
(* events of the search input, while the files change underneath and the   *)
(* selection moves up and down in the panels.                              *)
(***************************************************************************)

\* A handler that called the service ends: the service's state, the
\* application's list and what the panels show.
AppStep(op, arg, r) ==
  /\ cache' = r.svc.cache
  /\ registry' = r.svc.registry
  /\ held' = r.customizations
  /\ heap' = [i \in DOMAIN r.svc.heap
                     \cap (Ids(r.svc.cache) \cup Ids(r.customizations))
                |-> r.svc.heap[i]]
  /\ app' = r.app
  /\ panels' = r.panels
  /\ ret' = Returned(op, arg, r.exc, None, <<>>)
  /\ UNCHANGED <<fs, snap, first, edits>>

\* A handler that touched the application and its panels only ends.
UiStep(op, arg, r) ==
  /\ app' = r.app
  /\ panels' = r.panels
  /\ ret' = Returned(op, arg, "none", None, <<>>)
  /\ UNCHANGED <<fs, cache, registry, heap, held, snap, first, edits>>

\* on_mount: _load_customizations(); the application runs if that returned
OnMount ==
  /\ ~app.running
  /\ ret.op = "init"
  /\ With(_load_customizations(fs, Svc, Pinned, held, app, panels), LAMBDA r :
       AppStep("on_mount", "",
               [r EXCEPT !.app = [@ EXCEPT !.running = (r.exc = "none")]]))

ActionRefresh ==
  /\ app.running
  /\ With(action_refresh(fs, Svc, Pinned, held, app, panels), LAMBDA r :
       AppStep("action_refresh", "", r))

ActionFilterAll ==
  /\ app.running
  /\ UiStep("action_filter_all", "", action_filter_all(heap, held, app, panels))

ActionFilterUser ==
  /\ app.running
  /\ UiStep("action_filter_user", "", action_filter_user(heap, held, app, panels))

ActionFilterProject ==
  /\ app.running
  /\ UiStep("action_filter_project", "",
            action_filter_project(heap, held, app, panels))

ActionFilterPlugin ==
  /\ app.running
  /\ UiStep("action_filter_plugin", "",
            action_filter_plugin(heap, held, app, panels))

\* The search strings typed into the search input
AppQueries == { <<>>, <<"D", "E">>, <<"z", "z">> }

OnFilterChanged ==
  /\ app.running
  /\ \E query \in AppQueries :
       UiStep("on_filter_input_filter_changed", query,
              on_filter_input_filter_changed(heap, held, app, panels, query))

OnFilterCancelled ==
  /\ app.running
  /\ UiStep("on_filter_input_filter_cancelled", "",
            on_filter_input_filter_cancelled(heap, held, app, panels))

OnFilterApplied ==
  /\ app.running
  /\ UiStep("on_filter_input_filter_applied", "",
            on_filter_input_filter_applied(app, panels))

\* A key binding of panel t ran: the panel as the handler left it.
PanelStep(op, t, panel) ==
  /\ panels' = [panels EXCEPT ![t] = panel]
  /\ ret' = Returned(op, t, "none", None, <<>>)
  /\ UNCHANGED <<fs, cache, registry, heap, held, snap, first, edits, app>>

CursorDown ==
  \E t \in DOMAIN panels :
    PanelStep("action_cursor_down", t, action_cursor_down(panels[t]))

CursorUp ==
  \E t \in DOMAIN panels :
    PanelStep("action_cursor_up", t, action_cursor_up(panels[t]))

CursorTop ==
  \E t \in DOMAIN panels :
    PanelStep("action_cursor_top", t, action_cursor_top(panels[t]))

CursorBottom ==
  \E t \in DOMAIN panels :
    PanelStep("action_cursor_bottom", t, action_cursor_bottom(panels[t]))

InitApp == fs \in {EmptyFs, NamesFs} /\ InitService

NextApp ==
  \/ OnMount
  \/ ActionRefresh
  \/ ActionFilterAll
  \/ ActionFilterUser
  \/ ActionFilterProject
  \/ ActionFilterPlugin
  \/ OnFilterChanged
  \/ OnFilterCancelled
  \/ OnFilterApplied
  \/ CursorDown
  \/ CursorUp
  \/ CreateFile
  \/ DeleteFile

SpecApp == InitApp /\ [][NextApp]_vars

(***************************************************************************)
(* One type panel on its own, given lists of every length up to            *)
(* MaxPanelLen and moved through by its cursor keys.                       *)
(***************************************************************************)

MaxPanelLen == 3

\* Two slash commands and a server, as a discovery pass finds them
PanelPool ==
  With(DiscoverPass(NamesFs, None).items, LAMBDA items :
    { items[i] : i \in { j \in 1..Len(items) :
                           \/ items[j].type = "SLASH_COMMAND" /\ items[j].level = "PROJECT"
                           \/ items[j].type = "MCP" /\ items[j].level = "USER" } })

PanelLists == UNION { [1..n -> PanelPool] : n \in 0..MaxPanelLen }

SetCustomizations ==
  \E t \in DOMAIN panels, customizations \in PanelLists :
    PanelStep("set_customizations", t, set_customizations(panels[t], customizations))

InitPanel ==
  /\ fs = EmptyFs
  /\ edits = 0
  /\ cache = None
  /\ registry = None
  /\ heap = <<>>
  /\ ret = Returned("init", "", "none", None, <<>>)
  /\ held = None
  /\ snap = None
  /\ first = None
  /\ app = LazyClaude
  /\ \E t \in {"SLASH_COMMAND", "MCP"} : panels = (t :> TypePanel(t))

NextPanel ==
  \/ SetCustomizations
  \/ CursorDown
  \/ CursorUp
  \/ CursorTop
  \/ CursorBottom

SpecPanel == InitPanel /\ [][NextPanel]_vars

(***************************************************************************)
(* Properties of the cache                                                 *)
(***************************************************************************)

HasRecordAt(items, p) == \E i \in 1..Len(items) : items[i].path = p

\* C1: without a refresh() in between, every discover_all call that returns
\* gives the list the first such call gave: the same object with the same
\* records in the same order, whatever happened to the files since.
IdempotentDiscoverAll ==
  ret.op = "discover_all" /\ ret.exc = "none"
    => /\ first # None
       /\ ret.ref = first[1].ref
       /\ heap[ret.ref[1]] = first[1].items

\* discover_all gave the empty list, a command file was created, and a
\* later discover_all gave that empty list again.
StaleEmptyListReturned ==
  /\ ret.op = "discover_all" /\ ret.exc = "none"
  /\ edits > 0 /\ ret.at = edits
  /\ first # None /\ first[1].items = <<>>
  /\ heap[ret.ref[1]] = <<>>
  /\ UserDeploy \in fs.files
  /\ DiscoverPass(fs, None).items # <<>>

\* C2: the list refresh() returns, and the list every discover_all returns
\* until the next refresh(), is the result of a pass over the files as they
\* were when refresh() ran: a file present then has a record, a file absent
\* then has none.
RefreshReflectsDisk ==
  snap # None /\ ret.op \in {"refresh", "discover_all"} /\ ret.exc = "none"
    => /\ heap[ret.ref[1]] = DiscoverPass(snap[1], None).items
       /\ \A p \in EditFiles :
            p \in snap[1].files <=> HasRecordAt(heap[ret.ref[1]], p)

\* A list from before the file was created is held, and refresh() returned
\* a list with a record for the new file.
RefreshFoundNewFile ==
  /\ ret.op = "refresh" /\ ret.exc = "none" /\ ret.at > 0
  /\ held # None
  /\ ~HasRecordAt(heap[held[1]], RootClaudeMd)
  /\ HasRecordAt(heap[ret.ref[1]], RootClaudeMd)

\* key(c) <= key(d) for the key (index of the kind, lower-cased name)
KeyLeq(c, d) ==
  \/ type_order(c.type) < type_order(d.type)
  \/ /\ c.type = d.type
     /\ ~StrLess(Lower(d.name), Lower(c.name))

IsSorted(items) ==
  \A i \in 1..(Len(items) - 1) : KeyLeq(items[i], items[i + 1])

\* C8: the cache is absent or holds the complete sorted result of one whole
\* pass: every step leaves it as it was, clears it, or sets it to the
\* result of a pass that ran to its end; a call that raises leaves it absent.
CacheIsWholePass ==
  [][/\ ret'.exc # "none" => cache' = None
     /\ cache' # None =>
          /\ IsSorted(heap'[cache'[1]])
          /\ \/ cache # None /\ cache' = cache
                /\ heap'[cache'[1]] = heap[cache[1]]
             \/ \E reg \in {registry, None} :
                  /\ DiscoverPass(fs, reg).exc = "none"
                  /\ heap'[cache'[1]] = DiscoverPass(fs, reg).items]_vars

\* A pass raised after it had collected records, and the cache is absent.
PassAbandonedCacheAbsent ==
  /\ ret.op \in {"discover_all", "refresh"} /\ ret.exc # "none"
  /\ ret.at = edits
  /\ DiscoverPass(fs, None).items # <<>>
  /\ cache = None

\* C9: refresh() leaves a list the caller holds as it was, record for
\* record, and returns a list object other than the ones returned before.
RefreshReplacesWholesale ==
  [][ret'.op = "refresh" /\ ret'.exc = "none" /\ Refresh =>
       /\ held # None => ret'.ref # held /\ heap'[held[1]] = heap[held[1]]
       /\ ret.ref # None => ret'.ref # ret.ref]_vars

\* The caller holds the list that was cached before a refresh(), and the
\* refresh() returned another list with other records.
HeldListOutlivedRefresh ==
  /\ ret.op = "refresh" /\ ret.exc = "none" /\ ret.at = edits /\ edits > 0
  /\ held # None /\ held # ret.ref
  /\ heap[held[1]] # heap[ret.ref[1]]
  /\ heap[held[1]] # <<>>

Selected(items, op, arg) ==
  SelectSeq(items, LAMBDA c : IF op = "discover_by_level" THEN c.level = arg
                                                         ELSE c.type = arg)

\* C10: discover_by_level and discover_by_type return the records of the
\* cached list with the scope or kind asked for, in the list's order; a
\* populated cache, its list and the registry are left as they are; an absent
\* cache is set to the whole result of a pass.
FiltersUseTheCache ==
  [][DiscoverByLevel \/ DiscoverByType =>
       /\ ret'.exc = "none" =>
            /\ cache' # None
            /\ ret'.items = Selected(heap'[cache'[1]], ret'.op, ret'.arg)
       /\ cache # None =>
            /\ ret'.exc = "none"
            /\ cache' = cache /\ registry' = registry
            /\ heap'[cache[1]] = heap[cache[1]]
       /\ cache = None /\ ret'.exc = "none" =>
            heap'[cache'[1]] = DiscoverPass(fs, registry).items]_vars

\* A filter call made after the files changed answered from the cached
\* list: a proper part of it, which is not what a pass over the files gives.
FilterAnsweredFromCache ==
  /\ ret.op \in {"discover_by_level", "discover_by_type"} /\ ret.exc = "none"
  /\ ret.at = edits /\ edits > 0
  /\ cache # None
  /\ ret.items # <<>> /\ ret.items # heap[cache[1]]
  /\ ret.items # Selected(DiscoverPass(fs, None).items, ret.op, ret.arg)

(***************************************************************************)
(* Properties of one discovery pass                                        *)
(***************************************************************************)

\* The list the last discover_all or refresh returned.
PassReturned == ret.op \in {"discover_all", "refresh"} /\ ret.exc = "none"
PassItems == heap[ret.ref[1]]

\* C3: every list discover_all, refresh and discover_from_directory return
\* is sorted by (index of the kind in CustomizationType, lower-cased name):
\* each record's key is at most the next one's, so slash commands come
\* before skills whatever the names.
ReturnedListsSorted ==
  /\ PassReturned => IsSorted(PassItems)
  /\ ret.op = "discover_from_directory" /\ ret.exc = "none" => IsSorted(ret.items)

\* A returned list holds the nested command "nest:Build", then the skill
\* "beta", then the skill "Zeta".
CommandThenBetaThenZeta ==
  /\ PassReturned
  /\ \E i, j, k \in 1..Len(PassItems) :
       /\ i < j /\ j < k
       /\ PassItems[i].type = "SLASH_COMMAND" /\ PassItems[i].path = ProjectNested
       /\ PassItems[j].type = "SKILL" /\ PassItems[j].name = Chars["beta"]
       /\ PassItems[k].type = "SKILL" /\ PassItems[k].name = Chars["Zeta"]

SamePathAndKind(c, d) ==
  Resolve(fs, c.path) = Resolve(fs, d.path) /\ c.type = d.type

UnderRules(p) ==
  IsUnder(Join(user_config_path, "rules"), p)
    \/ IsUnder(Join(project_config_path, "rules"), p)

MemoryRecords == SelectSeq(PassItems, LAMBDA c : c.type = "MEMORY_FILE")

\* Both CLAUDE.md candidates of the project are files, and there is no
\* other memory file.
OnlyBothClaudeMd ==
  /\ IsFile(fs, ConfigClaudeMd) /\ IsFile(fs, RootClaudeMd)
  /\ (fs.files \cup LinkSources(fs)) \cap MemFiles = {ConfigClaudeMd, RootClaudeMd}

\* C5 as stated: with both <project_root>/.claude/CLAUDE.md and
\* <project_root>/CLAUDE.md and no other memory file, the pass gives exactly
\* one memory-file record, for <project_root>/.claude/CLAUDE.md.
OneRecordForBothClaudeMd ==
  PassReturned /\ OnlyBothClaudeMd =>
    Len(MemoryRecords) = 1 /\ MemoryRecords[1].path = ConfigClaudeMd

\* C5, amended: with both files and no other memory file, the pass gives
\* one record, for <project_root>/.claude/CLAUDE.md, when the two paths
\* resolve to one file, and one record for each of the two when they are
\* different files.
OneRecordPerResolvedClaudeMd ==
  PassReturned /\ OnlyBothClaudeMd =>
    IF Resolve(fs, ConfigClaudeMd) = Resolve(fs, RootClaudeMd)
    THEN Len(MemoryRecords) = 1 /\ MemoryRecords[1].path = ConfigClaudeMd
    ELSE /\ Len(MemoryRecords) = 2
         /\ {MemoryRecords[1].path, MemoryRecords[2].path}
              = {ConfigClaudeMd, RootClaudeMd}

\* <project_root>/CLAUDE.md is a link to <project_root>/.claude/CLAUDE.md and
\* the pass gave the one record.
LinkedClaudeMdRecordedOnce ==
  /\ PassReturned /\ OnlyBothClaudeMd
  /\ <<RootClaudeMd, ConfigClaudeMd>> \in fs.links
  /\ Len(MemoryRecords) = 1

CommandsDir(root) == Join(root, "commands")

CommandRecords(path, level) ==
  SelectSeq(PassItems, LAMBDA c : c.type = "SLASH_COMMAND" /\ c.path = path
                                  /\ c.level = level)

\* C6: for a command file with the same relative name under the user's and
\* the project's commands directory, the pass gives two slash-command
\* records of one name, one of scope User and one of scope Project.
SameCommandAtBothScopes ==
  PassReturned =>
    \A u, p \in fs.files :
      /\ IsUnder(CommandsDir(user_config_path), u)
      /\ IsUnder(CommandsDir(project_config_path), p)
      /\ RelStr(u, CommandsDir(user_config_path))
           = RelStr(p, CommandsDir(project_config_path))
      => /\ Len(CommandRecords(u, "USER")) = 1
         /\ Len(CommandRecords(p, "PROJECT")) = 1
         /\ CommandRecords(u, "USER")[1].name = CommandRecords(p, "PROJECT")[1].name

\* Both deploy.md files exist and the pass gave the user's record, with its
\* description, and the project's, with none.
DeployAtBothScopes ==
  /\ PassReturned
  /\ {UserDeploy, ProjectDeploy} \subseteq fs.files
  /\ Len(CommandRecords(UserDeploy, "USER")) = 1
  /\ Len(CommandRecords(ProjectDeploy, "PROJECT")) = 1
  /\ CommandRecords(UserDeploy, "USER")[1].description = Some("Deploy the app")
  /\ CommandRecords(ProjectDeploy, "PROJECT")[1].description = None

\* C7: discover_all and refresh return a list whatever the files hold; no
\* exception reaches the caller.
NoExceptionEscapes ==
  ret.op \in {"discover_all", "refresh"} => ret.exc = "none"

(***************************************************************************)
(* The directory preview                                                   *)
(***************************************************************************)

\* What discover_all would give in service state svc: the exception, the
\* records of the list and the registry afterwards.
NextDiscoverAll(f, svc, pinned) ==
  LET r == discover_all(f, svc, pinned)
  IN [exc |-> r.exc,
      items |-> IF r.exc = "none" THEN r.svc.heap[r.ref[1]] ELSE <<>>,
      cached |-> r.exc = "none" /\ r.ref = svc.cache,
      registry |-> r.svc.registry]

\* C11: a discover_from_directory call leaves self._cache, the cached list's
\* records and the plugin loader's registry as they were, absent or not, and
\* a discover_all call made after it gives what one made in its place would
\* have given.
PreviewLeavesCaches ==
  [][ret'.op = "discover_from_directory"
       => /\ cache' = cache
          /\ registry' = registry
          /\ cache # None => heap'[cache[1]] = heap[cache[1]]
          /\ NextDiscoverAll(fs', [cache |-> cache', registry |-> registry',
                                   heap |-> heap'],
                             Ids(held') \cup Ids(ret'.ref))
             = NextDiscoverAll(fs, Svc, Pinned)]_vars

\* A preview found records while a cached list with other records and a
\* loaded registry were in place.
PreviewedBesidePopulatedCache ==
  /\ ret.op = "discover_from_directory" /\ ret.exc = "none"
  /\ ret.items # <<>>
  /\ cache # None /\ heap[cache[1]] # ret.items
  /\ registry # None

(***************************************************************************)
(* Properties of the filter service                                        *)
(***************************************************************************)

\* A step that is a call of filter on the list the caller holds.
FilterCalled == ret'.op = "filter" /\ held' = held /\ held # None

\* The list filter was given and the list it returned.
FilterInput == heap[held[1]]
FilterResult == heap'[ret'.ref[1]]

\* C12: filter(items, "", None) returns the input unchanged: the same
\* elements in the same order, so never an empty list for a non-empty input.
EmptyFilterReturnsInput ==
  [][FilterCalled /\ ret'.arg.query = <<>> /\ ret'.arg.level = None
       => /\ FilterResult = FilterInput
          /\ (FilterInput # <<>> => FilterResult # <<>>)]_vars

\* filter with no query and no level was given a list with records and
\* returned them.
EmptyFilterGaveRecords ==
  /\ ret.op = "filter" /\ ret.arg.query = <<>> /\ ret.arg.level = None
  /\ held # None /\ Len(heap[held[1]]) >= 2
  /\ heap[ret.ref[1]] = heap[held[1]]

\* The query match as the filter's contract words it: the lower-cased query
\* is in the lower-cased name, or the item has plugin_info and it is in the
\* lower-cased "short_name:" or "short_name:name".
InName(c, query) == IsSubstring(Lower(query), Lower(c.name))
InPrefix(c, query) ==
  IsSubstring(Lower(query), Lower(c.plugin_info[1].short_name \o <<":">>))
InPrefixedName(c, query) ==
  IsSubstring(Lower(query), Lower(c.plugin_info[1].short_name \o <<":">> \o c.name))
QueryMatches(c, query) ==
  \/ InName(c, query)
  \/ c.plugin_info # None /\ (InPrefix(c, query) \/ InPrefixedName(c, query))

\* The records filter(items, query, level) is to keep.
Kept(c, query, level) ==
  /\ level # None => c.level = level[1]
  /\ query # <<>> => QueryMatches(c, query)

\* C13: filter(items, query, level) is the sub-list of items, in their
\* order, of exactly the items of the level (when one is given) that match
\* the query (when it is not empty); items is left as it was, and the same
\* filter applied to the result gives the result.
FilterIsExactSublist ==
  [][FilterCalled
       => /\ FilterResult
             = SelectSeq(FilterInput,
                         LAMBDA c : Kept(c, ret'.arg.query, ret'.arg.level))
          /\ heap'[held[1]] = FilterInput
          /\ LET again == filter(heap', ret'.ref, ret'.arg.query, ret'.arg.level)
             IN again.heap[again.ref[1]] = FilterResult]_vars

\* A level and a query together kept some record, dropped a record of the
\* level that does not match the query and dropped a record that matches
\* the query at another level.
LevelAndQueryBothRestricted ==
  /\ ret.op = "filter" /\ held # None
  /\ ret.arg.level # None /\ ret.arg.query # <<>>
  /\ heap[ret.ref[1]] # <<>>
  /\ \E i, j \in 1..Len(heap[held[1]]) :
       /\ heap[held[1]][i].level = ret.arg.level[1]
       /\ ~QueryMatches(heap[held[1]][i], ret.arg.query)
       /\ heap[held[1]][j].level # ret.arg.level[1]
       /\ QueryMatches(heap[held[1]][j], ret.arg.query)

AllInteger(name) ==
  \A i \in 1..Len(Split(Chars[name], ".")) : IsIntStr(Split(Chars[name], ".")[i])
IntegerTuple(name) ==
  [i \in 1..Len(Split(Chars[name], ".")) |-> ToInt(Split(Chars[name], ".")[i])]
VersionLeq(a, b) ==
  IF AllInteger(a) /\ AllInteger(b)
  THEN ~IntTupleLess(IntegerTuple(b), IntegerTuple(a))
  ELSE ~StrLess(Chars[b], Chars[a])

\* The entry of the first plugin in the loaded registry, and the directory
\* its installPath names.
LoadedEntry == Lookup(registry[1].installed, PluginId)
LoadedLiteral == Lookup(LoadedEntry, "installPath").s

\* The loader looked for the newest version directory of the first plugin:
\* the registry lists the plugin, the installPath is no directory and its
\* parent is one.
VersionsCompared ==
  /\ ret.op = "get_all_plugins"
  /\ registry # None /\ HasKey(registry[1].installed, PluginId)
  /\ ~IsDir(fs, LoadedLiteral) /\ IsDir(fs, Parent(LoadedLiteral))

Candidates == {Name(d) : d \in {e \in fs.dirs : Parent(e) = Parent(LoadedLiteral)}}

\* C15: when the loader compares version directories it selects the
\* greatest name, all-integer names compared as integer tuples (10.0.0
\* above 2.0.0) and names that are not all-integer as strings.
NewestVersionSelected ==
  VersionsCompared
    => /\ ret.exc = "none"
       /\ \E i \in 1..Len(ret.items) :
            /\ ret.items[i].plugin_id = PluginId
            /\ Name(ret.items[i].install_path) \in Candidates
            /\ \A other \in Candidates :
                 VersionLeq(other, Name(ret.items[i].install_path))

\* The enabled flag of plugin id in the loaded registry: true when absent.
EnabledFlag(id) == Truthy(Get(registry[1].enabled, id, JBool(TRUE)))

\* What get_all_plugins gives from the loaded registry, and what it gives
\* when the enabled map is empty.
AllPlugins == get_all_plugins(fs, registry)
AllPluginsNoFlags ==
  get_all_plugins(fs, Some([registry[1] EXCEPT !.enabled = JDict(<<>>)]))

\* A plugin record without its is_enabled field
Unflagged(info) == [info EXCEPT !.is_enabled = TRUE]

\* C16: get_enabled_plugins returns, in the order of get_all_plugins,
\* exactly the plugins of get_all_plugins whose enabled flag (true when the
\* id is not in the enabled map) is true; get_all_plugins returns the
\* installed plugins whose resolved install directory exists, the same ones
\* whatever the enabled map holds.  (Stated where the files are as they
\* were at the call.)
EnabledPluginsAreFlaggedSublist ==
  (ret.op = "get_enabled_plugins" /\ ret.exc = "none" /\ ret.at = edits
   /\ AllPlugins.exc = "none")
    => /\ ret.items = SelectSeq(AllPlugins.plugins,
                                LAMBDA info : EnabledFlag(info.plugin_id))
       /\ \A i \in 1..Len(AllPlugins.plugins) :
            IsDir(fs, AllPlugins.plugins[i].install_path)
       /\ \A i \in 1..Len(registry[1].installed.items) :
            LET id == registry[1].installed.items[i][1]
                literal == Lookup(registry[1].installed.items[i][2],
                                  "installPath").s
            IN (\E j \in 1..Len(AllPlugins.plugins) :
                  AllPlugins.plugins[j].plugin_id = id)
               \/ (~IsDir(fs, literal) /\ ~IsDir(fs, Parent(literal)))
       /\ AllPluginsNoFlags.exc = "none"
       /\ [i \in 1..Len(AllPluginsNoFlags.plugins) |->
             Unflagged(AllPluginsNoFlags.plugins[i])]
          = [i \in 1..Len(AllPlugins.plugins) |-> Unflagged(AllPlugins.plugins[i])]

\* get_enabled_plugins returned one plugin and left out a disabled plugin
\* whose directory exists.
DisabledPluginLeftOut ==
  /\ ret.op = "get_enabled_plugins" /\ ret.exc = "none" /\ ret.at = edits
  /\ Len(ret.items) = 1
  /\ AllPlugins.exc = "none" /\ Len(AllPlugins.plugins) = 2

(***************************************************************************)
(* Plugin items in the lists of the orchestrator                           *)
(***************************************************************************)

\* The command file of an install directory
CommandOf(install_path) == install_path \o <<"commands", "deploy.md">>

\* C17: in a list discover_all returns, every plugin of the registry whose
\* resolved install directory exists has its items listed, tagged with that
\* plugin's info, whatever its enabled flag; an installed plugin whose
\* literal installPath is a directory is among them; and every plugin info
\* in the list carries is_enabled equal to the enabled map's value for the
\* plugin (true when the id is not in the map).
DisabledPluginsAreListedAndFlagged ==
  PassReturned
    => /\ registry # None /\ AllPlugins.exc = "none"
       /\ \A k \in 1..Len(AllPlugins.plugins) :
            With(AllPlugins.plugins[k], LAMBDA info :
              /\ IsDir(fs, info.install_path)
              /\ CommandOf(info.install_path) \in fs.files
                   => \E i \in 1..Len(PassItems) :
                        /\ PassItems[i].path = CommandOf(info.install_path)
                        /\ PassItems[i].level = "PLUGIN"
                        /\ PassItems[i].plugin_info = Some(info))
       /\ \A k \in 1..Len(registry[1].installed.items) :
            With(registry[1].installed.items[k], LAMBDA kv :
              CommandOf(Lookup(kv[2], "installPath").s) \in fs.files
                => \E i \in 1..Len(PassItems) :
                     /\ PassItems[i].path = CommandOf(Lookup(kv[2], "installPath").s)
                     /\ PassItems[i].plugin_info # None
                     /\ PassItems[i].plugin_info[1].plugin_id = kv[1]
                     /\ PassItems[i].plugin_info[1].is_enabled = EnabledFlag(kv[1]))
       /\ \A i \in 1..Len(PassItems) :
            PassItems[i].plugin_info # None
              => PassItems[i].plugin_info[1].is_enabled
                   = EnabledFlag(PassItems[i].plugin_info[1].plugin_id)

\* discover_all listed the command of a disabled plugin, flagged false,
\* beside the command of an enabled plugin.
DisabledPluginCommandListed ==
  /\ ret.op = "discover_all" /\ ret.exc = "none"
  /\ \E i, j \in 1..Len(PassItems) :
       /\ PassItems[i].plugin_info # None
       /\ PassItems[j].plugin_info # None
       /\ PassItems[i].type = "SLASH_COMMAND"
       /\ ~PassItems[i].plugin_info[1].is_enabled
       /\ PassItems[j].plugin_info[1].is_enabled
       /\ HasKey(registry[1].enabled, PassItems[i].plugin_info[1].plugin_id)
       /\ ~HasKey(registry[1].enabled, PassItems[j].plugin_info[1].plugin_id)

(***************************************************************************)
(* The lifetime of the plugin registry                                     *)
(***************************************************************************)

\* The member key of the manifest at path as the file holds it now: the
\* empty map when the file is missing or holds no JSON.
ManifestMap(path, key) ==
  IF JsonAt(fs, path).st = "ok" /\ IsDictJ(JsonAt(fs, path).data)
  THEN Get(JsonAt(fs, path).data, key, EmptyDict)
  ELSE EmptyDict

\* The registry a load would build from the manifest files as they are now
ManifestsNow ==
  Some([installed |-> ManifestMap(installed_plugins_json, "plugins"),
        enabled |-> ManifestMap(user_settings_json, "enabledPlugins")])

LoaderCalls == {"load_registry", "get_all_plugins", "get_enabled_plugins"}

PluginIds(plugins) == {plugins[i].plugin_id : i \in 1..Len(plugins)}

InstalledIds(reg) ==
  {reg[1].installed.items[i][1] : i \in 1..Len(reg[1].installed.items)}

\* C18: the registry's maps are set only by a load that finds no registry
\* (the first after construction or after a refresh), and then hold the
\* manifests as the files are at that load; a registry that is set is left
\* as it is by every step but a refresh, and every load_registry /
\* get_all_plugins / get_enabled_plugins call made while it is set answers
\* from it, whatever the manifest files hold by then; the orchestrator's
\* refresh() drops it and loads the manifests as they are at the refresh
\* (a load that raises leaves none).
RegistryChangesOnlyOnLoadOrRefresh ==
  [][/\ registry' # registry /\ registry' # None => registry' = ManifestsNow
     /\ registry' # registry /\ registry = None
          => ret'.op \in LoaderCalls \cup {"refresh"}
     /\ registry' # registry /\ registry # None
          => ret'.op \in {"refresh", "loader_refresh"}
     /\ ret'.op = "loader_refresh" /\ ret' # ret => registry' = None
     /\ ret'.op = "refresh" /\ ret' # ret => registry' \in {None, ManifestsNow}
     /\ ret'.op \in LoaderCalls /\ ret' # ret /\ registry # None
          => /\ registry' = registry
             /\ PluginIds(ret'.items) \subseteq InstalledIds(registry)
             /\ \A i \in 1..Len(ret'.items) :
                  ret'.items[i].is_enabled
                    = Truthy(Get(registry[1].enabled, ret'.items[i].plugin_id,
                                 JBool(TRUE)))]_vars

\* get_all_plugins answered with a plugin of the registry it loaded earlier,
\* after installed_plugins.json was removed.
RemovedManifestStillServed ==
  /\ ret.op = "get_all_plugins" /\ ret.exc = "none"
  /\ edits > 0 /\ ret.at = edits
  /\ JsonAt(fs, installed_plugins_json).st = "missing"
  /\ ret.items # <<>>
  /\ registry # None /\ registry # ManifestsNow

\* C19: in a list discover_all returns, a record has plugin_info set exactly
\* when its level is PLUGIN, and then the info is one of the registry's
\* plugins and the record's file lies under that plugin's install
\* directory; in a list discover_from_directory returns, a record with
\* plugin_info set has level PLUGIN.
PluginInfoMarksPluginLevel ==
  /\ PassReturned
       => \A i \in 1..Len(PassItems) :
            With(PassItems[i], LAMBDA c :
              /\ c.plugin_info # None <=> c.level = "PLUGIN"
              /\ c.plugin_info # None
                   => /\ \E k \in 1..Len(AllPlugins.plugins) :
                           AllPlugins.plugins[k] = c.plugin_info[1]
                      /\ IsUnder(c.plugin_info[1].install_path, c.path))
  /\ ret.op = "discover_from_directory" /\ ret.exc = "none"
       => \A i \in 1..Len(ret.items) :
            ret.items[i].plugin_info # None => ret.items[i].level = "PLUGIN"

\* discover_all returned the commands of two plugins, each tagged with the
\* plugin whose install directory holds it.
TwoPluginsTaggedApart ==
  /\ ret.op = "discover_all" /\ ret.exc = "none"
  /\ \E i, j \in 1..Len(PassItems) :
       /\ PassItems[i].plugin_info # None /\ PassItems[j].plugin_info # None
       /\ PassItems[i].plugin_info[1].plugin_id # PassItems[j].plugin_info[1].plugin_id
       /\ PassItems[i].path = CommandOf(PassItems[i].plugin_info[1].install_path)
       /\ PassItems[j].path = CommandOf(PassItems[j].plugin_info[1].install_path)

(***************************************************************************)
(* Files a parser cannot read or decode                                    *)
(***************************************************************************)

\* The JSON file at f is there and cannot be read or decoded.
FailsToLoad(f) == IsFile(fs, f) /\ ReadJson(fs, f).exc # "none"

\* items holds exactly one record for the file f: an error record of the
\* given kind and level, with a name and no content.
OneErrorRecord(items, f, type, level) ==
  /\ Cardinality({i \in 1..Len(items) : items[i].path = f}) = 1
  /\ \A i \in 1..Len(items) :
       items[i].path = f
         => /\ items[i].type = type /\ items[i].level = level
            /\ items[i].name # <<>>
            /\ items[i].error /\ ~items[i].content

\* The plugin directory that holds the manifests was scanned by the last
\* discover_all or refresh.
ManifestDirScanned ==
  /\ AllPlugins.exc = "none"
  /\ \E k \in 1..Len(AllPlugins.plugins) :
       AllPlugins.plugins[k].install_path = VersionDir("10.0.0")

\* The last call was discover_from_directory on that directory with a
\* plugin_info, which scans the manifests.
ManifestDirPreviewed ==
  /\ ret.op = "discover_from_directory"
  /\ ret.arg.dir = VersionDir("10.0.0") /\ ret.arg.info # None

\* The skill file and the .lsp.json that cannot be read or decoded have one
\* error record each in every list that comes from scanning them, and the
\* preview of the directory raises nothing.
SkillAndLspFileFailuresRecorded ==
  /\ PassReturned
       => /\ UserSkill \in fs.unreadable
               => OneErrorRecord(PassItems, UserSkill, "SKILL", "USER")
          /\ FailsToLoad(LspFile) /\ ManifestDirScanned
               => OneErrorRecord(PassItems, LspFile, "LSP_SERVER", "PLUGIN")
  /\ ManifestDirPreviewed /\ FailsToLoad(LspFile)
       => /\ ret.exc = "none"
          /\ OneErrorRecord(ret.items, LspFile, "LSP_SERVER", "PLUGIN")

\* C20: a file that its parser cannot read or decode has exactly one record
\* in every list that comes from scanning it: of the parser's kind, at the
\* scope scanned, with the file's path, a name, error set and no content,
\* and the scan raises nothing.  So for an unreadable SKILL.md, for a
\* .lsp.json that cannot be read or decoded, and for a plugin's plugin.json
\* that cannot be read or decoded.
ParseFailureGivesOneErrorRecord ==
  /\ SkillAndLspFileFailuresRecorded
  /\ PassReturned /\ FailsToLoad(PluginJson) /\ ManifestDirScanned
       => OneErrorRecord(PassItems, PluginJson, "LSP_SERVER", "PLUGIN")
  /\ ManifestDirPreviewed /\ FailsToLoad(PluginJson)
       => /\ ret.exc = "none"
          /\ OneErrorRecord(ret.items, PluginJson, "LSP_SERVER", "PLUGIN")

(***************************************************************************)
(* Manifests the loader cannot use                                         *)
(***************************************************************************)

\* The manifest at path is missing, unreadable, no JSON, or JSON that is no
\* object.
Unusable(path) ==
  JsonAt(fs, path).st # "ok" \/ ~IsDictJ(JsonAt(fs, path).data)

\* A loader call made with no registry loaded: it reads the manifests.
FirstLoad == registry = None /\ ret'.op \in LoaderCalls /\ ret' # ret

\* The manifests that are missing, unreadable or no JSON give empty maps and
\* no exception.
UnreadableManifestGivesEmptyMap ==
  [][FirstLoad
       /\ JsonAt(fs, installed_plugins_json).st # "ok"
       /\ JsonAt(fs, user_settings_json).st # "ok"
       => /\ ret'.exc = "none"
          /\ registry' = Some([installed |-> EmptyDict, enabled |-> EmptyDict])
          /\ ret'.items = <<>>]_vars

\* C21: a load that finds installed_plugins.json (settings.json) missing,
\* unreadable, no JSON or JSON of another shape than an object raises
\* nothing and leaves an empty installed (enabled) map; with an empty
\* installed map get_all_plugins and get_enabled_plugins return the empty
\* list, with an empty enabled map every plugin returned is flagged enabled
\* and get_enabled_plugins returns what get_all_plugins returns.
UnusableManifestGivesEmptyMap ==
  [][/\ FirstLoad /\ Unusable(installed_plugins_json)
          => /\ ret'.exc # "AttributeError"
             /\ registry' # None /\ registry'[1].installed = EmptyDict
             /\ ret'.items = <<>>
     /\ FirstLoad /\ Unusable(user_settings_json)
          => /\ ret'.exc # "AttributeError"
             /\ registry' # None /\ registry'[1].enabled = EmptyDict
             /\ \A i \in 1..Len(ret'.items) : ret'.items[i].is_enabled
             /\ ret'.op = "get_enabled_plugins" /\ ret'.exc = "none"
                  => ret'.items = get_all_plugins(fs, registry').plugins]_vars

(***************************************************************************)
(* Local MCP servers                                                       *)
(***************************************************************************)

\* The "projects" member of ~/.claude.json, when the file holds an object
\* whose "projects" is an object.
ProjectsMap == Get(JsonAt(fs, claude_json).data, "projects", EmptyDict)

HasProjectsMap ==
  /\ JsonAt(fs, claude_json).st = "ok"
  /\ IsDictJ(JsonAt(fs, claude_json).data)
  /\ IsDictJ(ProjectsMap)

\* The servers of the project's entry: the entry under the forward-slash
\* key, else the one under the back-slash key; none without such an entry
\* or without its mcpServers.
ProjectServers ==
  IF HasKey(ProjectsMap, ForwardKey)
  THEN Get(Lookup(ProjectsMap, ForwardKey), "mcpServers", EmptyDict).items
  ELSE IF HasKey(ProjectsMap, BackKey)
  THEN Get(Lookup(ProjectsMap, BackKey), "mcpServers", EmptyDict).items
  ELSE <<>>

LocalRecords == SelectSeq(PassItems, LAMBDA c : c.level = "PROJECT_LOCAL")

\* C22: with "projects" a map, the PROJECT_LOCAL records of a discovery
\* pass are one MCP record per server of the project's entry, found under
\* the project root's path with forward slashes or with back-slashes, each
\* with the server's name and the path of ~/.claude.json; there is none
\* when neither key is present or the entry has no servers, and then
\* nothing is raised.
LocalMcpsFollowProjectKey ==
  /\ PassReturned /\ HasProjectsMap
       => /\ Len(LocalRecords) = Len(ProjectServers)
          /\ \A k \in 1..Len(ProjectServers) :
               \E i \in 1..Len(LocalRecords) :
                 /\ LocalRecords[i].name = ProjectServers[k][1]
                 /\ LocalRecords[i].type = "MCP"
                 /\ LocalRecords[i].path = claude_json
  /\ ret.op \in {"discover_all", "refresh"} /\ HasProjectsMap
       /\ ProjectServers = <<>>
       /\ JsonAt(fs, installed_plugins_json).st = "missing"
       => ret.exc = "none"

\* discover_all found the server of an entry stored under the back-slash
\* key only.
BackSlashKeyFound ==
  /\ ret.op = "discover_all" /\ ret.exc = "none" /\ HasProjectsMap
  /\ ~HasKey(ProjectsMap, ForwardKey) /\ HasKey(ProjectsMap, BackKey)
  /\ Len(LocalRecords) = 1
  /\ LocalRecords[1].name = ServerLoc

(***************************************************************************)
(* Skills                                                                  *)
(***************************************************************************)

SkillRoots ==
  { [dir |-> Join(user_config_path, "skills"), level |-> "USER"],
    [dir |-> Join(project_config_path, "skills"), level |-> "PROJECT"] }

\* The SKILL.md files that lie directly in a directory of the skills root
SkillFilesOf(root) ==
  {f \in fs.files : Name(f) = "SKILL.md" /\ Len(f) = Len(root.dir) + 2
                      /\ IsPrefix(root.dir, f)}

SkillsReturned ==
  ret.op = "discover_by_type" /\ ret.arg = "SKILL" /\ ret.exc = "none"

\* C23: discover_by_type(SKILL) returns, for every SKILL.md directly inside
\* a directory of the user's or the project's skills root, one record with
\* that root's level, named by the front matter's name when the file has
\* one and by the directory otherwise, described by the front matter's
\* description (a file that cannot be read is named by the directory and
\* has no description); it returns no record for any other file.
SkillPerSkillDirectory ==
  SkillsReturned
    => /\ \A root \in SkillRoots : \A f \in SkillFilesOf(root) :
            /\ Cardinality({i \in 1..Len(ret.items) : ret.items[i].path = f}) = 1
            /\ \A i \in 1..Len(ret.items) :
                 ret.items[i].path = f
                   => /\ ret.items[i].level = root.level
                      /\ ret.items[i].name
                           = IF Readable(fs, f) /\ FrontMatter(f).name # None
                             THEN FrontMatter(f).name[1]
                             ELSE Chars[Name(Parent(f))]
                      /\ ret.items[i].description
                           = IF Readable(fs, f) THEN FrontMatter(f).description
                             ELSE None
       /\ \A i \in 1..Len(ret.items) :
            /\ ret.items[i].type = "SKILL"
            /\ \E root \in SkillRoots : ret.items[i].path \in SkillFilesOf(root)

\* Two skills were returned, one named by its front matter and one by its
\* directory, while SKILL.md files lie in the skills root itself and two
\* directories deep.
SkillsAtOtherDepthsIgnored ==
  /\ SkillsReturned
  /\ {RootSkill, DeepSkill} \subseteq fs.files
  /\ Len(ret.items) = 2
  /\ \E i, j \in 1..2 :
       /\ ret.items[i].name = Chars["Zeta"] /\ ret.items[i].level = "USER"
       /\ ret.items[j].name = Chars["beta"] /\ ret.items[j].level = "PROJECT"

(***************************************************************************)
(* Names of memory files                                                   *)
(***************************************************************************)

\* The fixed candidate locations of _discover_memory_files
FixedMemoryPaths ==
  { Join(user_config_path, "CLAUDE.md"), Join(user_config_path, "AGENTS.md"),
    Join(user_config_path, "CLAUDE.local.md"),
    Join(project_config_path, "CLAUDE.md"), Join(project_config_path, "AGENTS.md"),
    Join(project_root, "CLAUDE.md"), Join(project_root, "AGENTS.md"),
    Join(project_root, "CLAUDE.local.md"),
    Join(project_config_path, "CLAUDE.local.md") }

\* The regular files named CLAUDE.md under the project root that are at no
\* fixed location
NestedOnly ==
  {f \in fs.files : Name(f) = "CLAUDE.md" /\ IsUnder(project_root, f)
                      /\ f \notin FixedMemoryPaths}

ProjectRulesDir == Join(project_config_path, "rules")

\* C24: in a list of a discovery pass, every CLAUDE.md under the project
\* root that is at no fixed candidate location has a MEMORY_FILE record of
\* level PROJECT named by its path relative to the project root (a file
\* under .claude/rules has a second record, of the rules pass, named
\* relative to the rules directory); a record of a file at a fixed
\* location has the name the parser gives.
NestedClaudeMdNamedByRelativePath ==
  PassReturned
    => /\ \A f \in NestedOnly :
            \E i \in 1..Len(PassItems) :
              /\ PassItems[i].path = f
              /\ PassItems[i].type = "MEMORY_FILE"
              /\ PassItems[i].level = "PROJECT"
              /\ PassItems[i].name = RelStr(f, project_root)
       /\ \A i \in 1..Len(PassItems) :
            With(PassItems[i], LAMBDA c :
              /\ c.type = "MEMORY_FILE" /\ c.path \in NestedOnly
                   => \/ c.name = RelStr(c.path, project_root)
                      \/ /\ IsUnder(ProjectRulesDir, c.path)
                         /\ c.name = RelStr(c.path, ProjectRulesDir)
              /\ c.type = "MEMORY_FILE" /\ c.path \in FixedMemoryPaths
                   => c.name = MemoryFileParse(fs, c.path, c.level).name)

\* discover_all listed the nested CLAUDE.md under its relative path beside
\* the project root's CLAUDE.md under the parser's name.
NestedAndRootClaudeMdListed ==
  /\ ret.op = "discover_all" /\ ret.exc = "none"
  /\ \E i, j \in 1..Len(PassItems) :
       /\ PassItems[i].path = NestedClaudeMd
       /\ PassItems[i].name = <<"s", "u", "b", "/">> \o Chars["CLAUDE.md"]
       /\ PassItems[j].path = RootClaudeMd
       /\ PassItems[j].name = MemoryFileParse(fs, RootClaudeMd, "PROJECT").name
       /\ PassItems[j].name # RelStr(RootClaudeMd, project_root)

(***************************************************************************)
(* The order of the memory-file candidates                                 *)
(***************************************************************************)

\* The fixed candidates in the order stated, each with its level; every
\* CLAUDE.md found under the project root comes after them, at PROJECT.
StatedOrder ==
  << [path |-> Join(user_config_path, "CLAUDE.md"), level |-> "USER"],
     [path |-> Join(user_config_path, "AGENTS.md"), level |-> "USER"],
     [path |-> Join(user_config_path, "CLAUDE.local.md"), level |-> "USER"],
     [path |-> Join(project_config_path, "CLAUDE.md"), level |-> "PROJECT"],
     [path |-> Join(project_config_path, "AGENTS.md"), level |-> "PROJECT"],
     [path |-> Join(project_root, "CLAUDE.md"), level |-> "PROJECT"],
     [path |-> Join(project_root, "AGENTS.md"), level |-> "PROJECT"],
     [path |-> Join(project_root, "CLAUDE.local.md"), level |-> "PROJECT_LOCAL"] >>

IsStated(p) == \E k \in 1..Len(StatedOrder) : StatedOrder[k].path = p

\* The position of candidate p in the stated order
Rank(p) ==
  IF IsStated(p)
  THEN CHOOSE k \in 1..Len(StatedOrder) : StatedOrder[k].path = p
  ELSE Len(StatedOrder) + 1

StatedLevel(p) == IF IsStated(p) THEN StatedOrder[Rank(p)].level ELSE "PROJECT"

\* The candidates that exist: the stated ones that are files, and every
\* CLAUDE.md under the project root.
StatedCandidates ==
  {p \in fs.files \cup LinkSources(fs) :
     IsStated(p) \/ (Name(p) = "CLAUDE.md" /\ IsUnder(project_root, p))}

\* The records of the memory pass in the list (the rules pass names its
\* records relative to the rules directory).
MemoryPassRecords ==
  SelectSeq(PassItems, LAMBDA c :
    /\ c.type = "MEMORY_FILE"
    /\ c.path \in StatedCandidates
    /\ ~(IsUnder(ProjectRulesDir, c.path)
         /\ c.name = RelStr(c.path, ProjectRulesDir)))

\* C25: the memory-file candidates are taken in the stated order and each
\* is tested against the resolved paths already recorded: no two records
\* of the memory pass resolve to the same path, and the record of a
\* resolved path is that of the earliest existing candidate resolving to
\* it, at that candidate's level.
EarliestCandidateWins ==
  PassReturned
    => /\ \A i, j \in 1..Len(MemoryPassRecords) :
            i # j => Resolve(fs, MemoryPassRecords[i].path)
                       # Resolve(fs, MemoryPassRecords[j].path)
       /\ \A p \in StatedCandidates :
            \E i \in 1..Len(MemoryPassRecords) :
              /\ Resolve(fs, MemoryPassRecords[i].path) = Resolve(fs, p)
              /\ Rank(MemoryPassRecords[i].path) <= Rank(p)
              /\ MemoryPassRecords[i].level = StatedLevel(MemoryPassRecords[i].path)

(***************************************************************************)
(* The install directory of a plugin                                       *)
(***************************************************************************)

\* The directories directly inside dir
ChildDirs(dir) ==
  {d \in {SubSeq(e, 1, Len(dir) + 1) : e \in {x \in Entries(fs) : IsUnder(dir, x)}} :
     IsDir(fs, d)}

\* info is resolved as stated from the manifest entry data: to the literal
\* installPath with the manifest's version, or to the newest directory
\* inside the literal's parent, the version being that directory's name.
ResolvedAsStated(info, data) ==
  With(Lookup(data, "installPath").s, LAMBDA literal :
    \/ /\ IsDir(fs, literal)
       /\ info.install_path = literal
       /\ info.version = Get(data, "version", JStr(Unknown)).s
    \/ /\ ~IsDir(fs, literal) /\ IsDir(fs, Parent(literal))
       /\ info.install_path \in ChildDirs(Parent(literal))
       /\ info.version = Chars[Name(info.install_path)]
       /\ \A d \in ChildDirs(Parent(literal)) :
            VersionLeq(Name(d), Name(info.install_path)))

AllPluginsReturned ==
  ret.op = "get_all_plugins" /\ ret.exc = "none" /\ ret.at = edits

\* C26: every plugin get_all_plugins returns is resolved to the literal
\* installPath of its manifest entry when that is a directory, with the
\* manifest's version, and otherwise, when the parent is a directory, to
\* the newest directory directly inside the parent, with that directory's
\* name as version; never to the parent itself.
InstallPathIsLiteralOrNewestChild ==
  AllPluginsReturned
    => \A i \in 1..Len(ret.items) :
         ResolvedAsStated(ret.items[i],
                          Lookup(registry[1].installed, ret.items[i].plugin_id))

\* The same for the plugins whose literal installPath is a directory or
\* whose parent holds a directory.
InstallPathResolvedAmongChildren ==
  AllPluginsReturned
    => \A i \in 1..Len(ret.items) :
         With(Lookup(registry[1].installed, ret.items[i].plugin_id), LAMBDA data :
           IsDir(fs, Lookup(data, "installPath").s)
             \/ ChildDirs(Parent(Lookup(data, "installPath").s)) # {}
             => ResolvedAsStated(ret.items[i], data))

(***************************************************************************)
(* The source path of a plugin                                             *)
(***************************************************************************)

\* The document of the JSON file at p when it is there and parses
LoadedDoc(p) ==
  IF IsFile(fs, p) /\ ReadJson(fs, p).exc = "none"
  THEN Some(ReadJson(fs, p).data) ELSE None

\* The source object of marketplace name in known_marketplaces.json, if the
\* marketplace is known
KnownSource(name) ==
  With(LoadedDoc(known_marketplaces_json), LAMBDA d :
    IF d # None /\ IsDictJ(d[1]) /\ HasKey(d[1], name)
         /\ IsDictJ(Lookup(d[1], name)) /\ HasKey(Lookup(d[1], name), "source")
    THEN Some(Lookup(Lookup(d[1], name), "source")) ELSE None)

IsDirectoryKind(source) ==
  source # None /\ Get(source[1], "source", JStr(<<>>)) = JStr(Directory)

\* The entries for plugin name in the manifest of the marketplace at root
EntriesFor(root, name) ==
  With(LoadedDoc(MarketplaceJson(root)), LAMBDA d :
    IF d # None /\ IsDictJ(d[1]) /\ HasKey(d[1], "plugins")
    THEN With(Lookup(d[1], "plugins").elems, LAMBDA plugins :
           { e \in {plugins[i] : i \in 1..Len(plugins)} :
               Get(e, "name", JStr(<<>>)) = JStr(name) })
    ELSE {})

\* The sources of plugin name that are directories, resolved against root
ExistingSources(root, name) ==
  { Resolve(fs, root \o Lookup(e, "source").s) :
      e \in { l \in EntriesFor(root, name) :
                /\ HasKey(l, "source")
                /\ IsDir(fs, Resolve(fs, root \o Lookup(l, "source").s)) } }

\* The manifest of the marketplace at root is missing or malformed, or it
\* parses and has no entry for plugin name
NoEntryFor(root, name) ==
  \/ LoadedDoc(MarketplaceJson(root)) = None
  \/ /\ IsDictJ(LoadedDoc(MarketplaceJson(root))[1])
     /\ EntriesFor(root, name) = {}

\* installPath of the plugin in the manifest the loader has loaded
InstallPathOf(plugin_id) ==
  IF HasKey(registry[1].installed, plugin_id)
       /\ HasKey(Lookup(registry[1].installed, plugin_id), "installPath")
  THEN Some(Lookup(Lookup(registry[1].installed, plugin_id), "installPath").s)
  ELSE None

SourcePathReturned ==
  /\ ret.op = "get_plugin_source_path"
  /\ ret.exc = "none"
  /\ ret.at = edits
  /\ MarketplaceName(ret.arg) # None

FilteredNow ==
  With(filter(heap, held, app.search_query, app.level_filter), LAMBDA r :
    r.heap[r.ref[1]])

OfType(items, t) == SelectSeq(items, LAMBDA c : c.type = t)

\* C28: once the application is mounted, after any of its actions (the
\* four level filters, search changed, cancelled or applied, refresh) the
\* items of every type panel are the records of the panel's type in
\* filter(the application's list, the search query, the level filter), in
\* that order.
PanelsShowFilteredList ==
  app.running =>
    \A t \in DOMAIN panels : panels[t].customizations = OfType(FilteredNow, t)

\* C28 (witness): a query typed under the user level filter left one of the
\* four slash commands in its panel.
QueryNarrowedUserCommands ==
  /\ app.running
  /\ ret.op = "on_filter_input_filter_changed"
  /\ ret.arg = <<"D", "E">>
  /\ app.level_filter = Some("USER")
  /\ Len(OfType(heap[held[1]], "SLASH_COMMAND")) = 4
  /\ Len(panels["SLASH_COMMAND"].customizations) = 1

(***************************************************************************)
(* The selection of a type panel                                           *)
(***************************************************************************)

\* The selection is 0 in an empty panel and an index of the list otherwise
SelectionInList ==
  \A t \in DOMAIN panels :
    IF panels[t].customizations = <<>> THEN panels[t].selected_index = 0
    ELSE /\ 0 <= panels[t].selected_index
         /\ panels[t].selected_index < Len(panels[t].customizations)

\* cursor_down at the last item and cursor_up at the first leave the
\* selection where it is
NoWrapAround ==
  \A t \in DOMAIN panels :
    /\ ( /\ PanelStep("action_cursor_down", t, action_cursor_down(panels[t]))
         /\ panels[t].selected_index = Len(panels[t].customizations) - 1 )
         => panels'[t].selected_index = panels[t].selected_index
    /\ ( /\ PanelStep("action_cursor_up", t, action_cursor_up(panels[t]))
         /\ panels[t].selected_index = 0 )
         => panels'[t].selected_index = panels[t].selected_index

\* C29: after any sequence of cursor_down, cursor_up, cursor_top,
\* cursor_bottom and set_customizations on a TypePanel, selected_index is 0
\* when the panel's list is empty and otherwise at least 0 and below the
\* length of the list; cursor_down at the last item and cursor_up at the
\* first item leave the index unchanged.
SelectionStaysInList == []SelectionInList /\ [][NoWrapAround]_vars

\* C29 (witness): cursor_down ran in a panel of MaxPanelLen items with the
\* selection on the last of them.
CursorDownAtLastItem ==
  /\ ret.op = "action_cursor_down"
  /\ Len(panels[ret.arg].customizations) = MaxPanelLen
  /\ panels[ret.arg].selected_index = MaxPanelLen - 1

(***************************************************************************)
(* What the application's actions leave alone                              *)
(***************************************************************************)

LevelFilterAction ==
  ActionFilterAll \/ ActionFilterUser \/ ActionFilterProject \/ ActionFilterPlugin

\* The steps are told apart by the handler ret names before the action
\* itself is compared.
RefreshFrame ==
  (ret'.op = "action_refresh" /\ ret'.exc = "none" /\ ActionRefresh) =>
    With(refresh(fs, Svc, Pinned), LAMBDA r :
      /\ held' = r.ref
      /\ heap'[held'[1]] = r.svc.heap[r.ref[1]]
      /\ app'.level_filter = app.level_filter
      /\ app'.search_query = app.search_query)

CancelFrame ==
  (ret'.op = "on_filter_input_filter_cancelled" /\ OnFilterCancelled) =>
    /\ app'.search_query = <<>>
    /\ app'.level_filter = app.level_filter

LevelFilterOps ==
  {"action_filter_all", "action_filter_user", "action_filter_project",
   "action_filter_plugin"}

LevelFrame ==
  (ret'.op \in LevelFilterOps /\ LevelFilterAction) =>
    app'.search_query = app.search_query

\* C30: the refresh action replaces the application's list with the result
\* of refresh() of the discovery service and leaves the level filter and
\* the search query unchanged; the search-cancel event resets the search
\* query to empty and leaves the level filter unchanged; a level-filter
\* action leaves the search query unchanged.
ActionsKeepOtherSettings == [][RefreshFrame /\ CancelFrame /\ LevelFrame]_vars

\* C30 (witness): refresh ran under a level filter and a search query after
\* a file changed, and the application holds a list that differs from the
\* first one it was given.
RefreshedUnderFilterAndQuery ==
  /\ ret.op = "action_refresh"
  /\ ret.exc = "none"
  /\ ret.at = 1
  /\ app.level_filter = Some("PROJECT")
  /\ app.search_query = <<"D", "E">>
  /\ first = None
  /\ heap[held[1]] # <<>>
====
